---- MODULE Spec2Model ----
(***************************************************************************)
(* memstrap: multi-encoding string extraction (src/memstrap/src/extractor.rs)*)
(* and the chunked parallel scan with merge of its driver                   *)
(* (src/memstrap/src/main.rs).                                              *)
(*                                                                         *)
(* Conventions.  A byte buffer is a sequence of numbers 0..255; the code's  *)
(* zero-based index i is the element data[i + 1].  A decoded string is the  *)
(* sequence of its Unicode scalar values.  Option<T> is a sequence of       *)
(* length 0 (None) or 1 (Some).                                             *)
(***************************************************************************)
EXTENDS Integers, Sequences, FiniteSets, TLC

(***************************************************************************)
(* Bounds of the explored inputs.                                           *)
(***************************************************************************)
MaxLen == 4
MaxMinLen == 2
BaseSample == 100
PipeLen == 6
PipeThreads == 3
ScaledMinChunk == 2
ScaledOverlap == 2
ScaledLargeFile == 5
PlanMul == 10
PlanThreads == 9
Utf16Len == 6
GbkLen == 6
ScaledMaxString == 4

(***************************************************************************)
(* Program constants.                                                       *)
(***************************************************************************)
min_chunk_size == 16777216
overlap_size == 4096
large_file_size == 104857600
large_file_threads == 8
default_thread_cap == 8
MAX_INVALID_BYTES == 3
MAX_STRING_LENGTH == 1024

None == << >>
Some(x) == << x >>
is_some(o) == Len(o) = 1
unwrap(o) == o[1]

Min(a, b) == IF a < b THEN a ELSE b
Max(a, b) == IF a > b THEN a ELSE b

\* &data[from..to], zero-based and half-open
Slice(data, from, to) == [k \in 1..(to - from) |-> data[from + k]]

(***************************************************************************)
(* Encoding and EncodingType                                                *)
(***************************************************************************)
EncodingType == {"Ascii", "Utf8", "Utf16Le", "Utf16Be", "Gbk"}

\* impl From<EncodingType> for Encoding
EncodingFrom(encoding_type) == encoding_type

\* a printable test that leaves out the space
is_printable_ascii_graphic(byte) == byte >= 33 /\ byte <= 126

is_printable_ascii(byte) == byte >= 32 /\ byte <= 126

\* u8::is_ascii_graphic: U+0021 ..= U+007E
is_ascii_graphic(b) == b >= 33 /\ b <= 126

(***************************************************************************)
(* std::str::from_utf8: the scalar values of a well-formed UTF-8 sequence,  *)
(* or an error on the first ill-formed sequence (overlong forms,            *)
(* surrogates, values above U+10FFFF and truncated sequences included).     *)
(***************************************************************************)
IsCont(b) == b >= 128 /\ b <= 191

RECURSIVE from_utf8_at(_, _, _)
from_utf8_at(bytes, k, acc) ==
    IF k > Len(bytes) THEN [ok |-> TRUE, chars |-> acc]
    ELSE LET b == bytes[k]
             n == Len(bytes)
             bad == [ok |-> FALSE, chars |-> << >>]
         IN  IF b < 128 THEN from_utf8_at(bytes, k + 1, Append(acc, b))
             ELSE IF b >= 194 /\ b <= 223
             THEN IF k + 1 <= n /\ IsCont(bytes[k + 1])
                  THEN from_utf8_at(bytes, k + 2,
                           Append(acc, (b - 192) * 64 + (bytes[k + 1] - 128)))
                  ELSE bad
             ELSE IF b >= 224 /\ b <= 239
             THEN IF /\ k + 2 <= n
                     /\ IsCont(bytes[k + 1])
                     /\ IsCont(bytes[k + 2])
                     /\ (b = 224 => bytes[k + 1] >= 160)
                     /\ (b = 237 => bytes[k + 1] <= 159)
                  THEN from_utf8_at(bytes, k + 3,
                           Append(acc, (b - 224) * 4096 + (bytes[k + 1] - 128) * 64
                                       + (bytes[k + 2] - 128)))
                  ELSE bad
             ELSE IF b >= 240 /\ b <= 244
             THEN IF /\ k + 3 <= n
                     /\ IsCont(bytes[k + 1])
                     /\ IsCont(bytes[k + 2])
                     /\ IsCont(bytes[k + 3])
                     /\ (b = 240 => bytes[k + 1] >= 144)
                     /\ (b = 244 => bytes[k + 1] <= 143)
                  THEN from_utf8_at(bytes, k + 4,
                           Append(acc, (b - 240) * 262144 + (bytes[k + 1] - 128) * 4096
                                       + (bytes[k + 2] - 128) * 64 + (bytes[k + 3] - 128)))
                  ELSE bad
             ELSE bad

from_utf8(bytes) == from_utf8_at(bytes, 1, << >>)

(***************************************************************************)
(* String::from_utf16: a high surrogate must be followed by a low one; any  *)
(* other surrogate is an error.                                             *)
(***************************************************************************)
IsHighSurrogate(u) == u >= 55296 /\ u <= 56319
IsLowSurrogate(u) == u >= 56320 /\ u <= 57343

RECURSIVE from_utf16_at(_, _, _)
from_utf16_at(units, k, acc) ==
    IF k > Len(units) THEN [ok |-> TRUE, chars |-> acc]
    ELSE LET u == units[k]
         IN  IF IsHighSurrogate(u)
             THEN IF k + 1 <= Len(units) /\ IsLowSurrogate(units[k + 1])
                  THEN from_utf16_at(units, k + 2,
                           Append(acc, 65536 + (u - 55296) * 1024 + (units[k + 1] - 56320)))
                  ELSE [ok |-> FALSE, chars |-> << >>]
             ELSE IF IsLowSurrogate(u) THEN [ok |-> FALSE, chars |-> << >>]
             ELSE from_utf16_at(units, k + 1, Append(acc, u))

from_utf16(units) == from_utf16_at(units, 1, << >>)

(***************************************************************************)
(* encoding_rs GBK.decode over the bytes the GBK scanner accumulates:       *)
(* printable ASCII bytes decode to themselves and every lead/trail pair of  *)
(* the two-byte range decodes to one character.  The character of a pair is *)
(* kept abstract (a value outside the ASCII range that names the pair),     *)
(* except 0xA1 0xA1, the ideographic space U+3000.  decode sniffs a byte     *)
(* order mark: bytes that begin with EF BB BF are decoded as UTF-8, the mark *)
(* removed, with U+FFFD for every malformed sequence.                       *)
(***************************************************************************)
gbk_pair_char(lead, trail) ==
    IF lead = 161 /\ trail = 161 THEN 12288 ELSE 1114112 + lead * 256 + trail

RECURSIVE gbk_decode_at(_, _, _)
gbk_decode_at(bytes, k, acc) ==
    IF k > Len(bytes) THEN acc
    ELSE IF bytes[k] < 128 THEN gbk_decode_at(bytes, k + 1, Append(acc, bytes[k]))
    ELSE IF k + 1 <= Len(bytes)
         THEN gbk_decode_at(bytes, k + 2, Append(acc, gbk_pair_char(bytes[k], bytes[k + 1])))
         ELSE Append(acc, 65533)

\* the length of the longest prefix of a well-formed UTF-8 sequence at index k
utf8_valid_prefix(bytes, k) ==
    LET b == bytes[k]
        n == Len(bytes)
        need == IF b >= 194 /\ b <= 223 THEN 2
                ELSE IF b >= 224 /\ b <= 239 THEN 3
                ELSE IF b >= 240 /\ b <= 244 THEN 4 ELSE 1
        second_ok ==
            /\ k + 1 <= n
            /\ IsCont(bytes[k + 1])
            /\ (b = 224 => bytes[k + 1] >= 160)
            /\ (b = 237 => bytes[k + 1] <= 159)
            /\ (b = 240 => bytes[k + 1] >= 144)
            /\ (b = 244 => bytes[k + 1] <= 143)
    IN  IF need = 1 \/ ~second_ok THEN 1
        ELSE IF need = 2 \/ ~(k + 2 <= n /\ IsCont(bytes[k + 2])) THEN 2
        ELSE IF need = 3 \/ ~(k + 3 <= n /\ IsCont(bytes[k + 3])) THEN 3
        ELSE 4

RECURSIVE utf8_decode_lossy_at(_, _, _)
utf8_decode_lossy_at(bytes, k, acc) ==
    IF k > Len(bytes) THEN acc
    ELSE IF bytes[k] < 128 THEN utf8_decode_lossy_at(bytes, k + 1, Append(acc, bytes[k]))
    ELSE LET len == utf8_valid_prefix(bytes, k)
             one == from_utf8(Slice(bytes, k - 1, k - 1 + len))
         IN  utf8_decode_lossy_at(bytes, k + len,
                 acc \o (IF one.ok THEN one.chars ELSE << 65533 >>))

gbk_decode(bytes) ==
    IF Len(bytes) >= 3 /\ bytes[1] = 239 /\ bytes[2] = 187 /\ bytes[3] = 191
    THEN utf8_decode_lossy_at(bytes, 4, << >>)
    ELSE gbk_decode_at(bytes, 1, << >>)

\* char::is_whitespace over the characters the model can decode
is_whitespace(c) == c \in {9, 10, 11, 12, 13, 32, 133, 160, 12288}

\* decoded.trim().is_empty()
trim_is_empty(chars) == \A k \in 1..Len(chars) : is_whitespace(chars[k])

(***************************************************************************)
(* regex::Regex over the pattern fragment the model draws patterns from:    *)
(* a literal matches itself, '.' (46) matches any character but '\n', and   *)
(* an unclosed '(' (40) does not compile.  is_match is an unanchored search.*)
(***************************************************************************)
RegexCompiles(pattern) == \A k \in 1..Len(pattern) : pattern[k] # 40

RegexIsMatch(pattern, content) ==
    \E s \in 0..(Len(content) - Len(pattern)) :
        \A j \in 1..Len(pattern) :
            IF pattern[j] = 46 THEN content[s + j] # 10 ELSE content[s + j] = pattern[j]

\* str::contains(&str)
Contains(content, pattern) ==
    \E s \in 0..(Len(content) - Len(pattern)) :
        \A j \in 1..Len(pattern) : content[s + j] = pattern[j]

(***************************************************************************)
(* StringExtractor::new                                                     *)
(***************************************************************************)
\* the Err(MemstrapError::Regex) of the ? operator
ErrRegex == [ok |-> FALSE, error |-> "Regex"]

\* the constructor compiling every pattern, the plain ones included
StringExtractor_new_eager(min_len, encodings, search_pattern, use_regex, context_bytes) ==
    IF is_some(search_pattern) /\ ~RegexCompiles(unwrap(search_pattern))
    THEN ErrRegex
    ELSE [ok |-> TRUE,
          config |->
             [min_len |-> min_len,
              encodings |-> {EncodingFrom(encodings[k]) : k \in 1..Len(encodings)},
              search_pattern |-> search_pattern,
              regex_pattern |-> IF use_regex /\ is_some(search_pattern)
                                THEN Some(unwrap(search_pattern)) ELSE None,
              context_bytes |-> context_bytes]]

\* the constructor keeping the plain pattern only where no regex is compiled
StringExtractor_new_one_filter(min_len, encodings, search_pattern, use_regex, context_bytes) ==
    IF use_regex /\ is_some(search_pattern) /\ ~RegexCompiles(unwrap(search_pattern))
    THEN ErrRegex
    ELSE [ok |-> TRUE,
          config |->
             [min_len |-> min_len,
              encodings |-> {EncodingFrom(encodings[k]) : k \in 1..Len(encodings)},
              search_pattern |-> IF use_regex THEN None ELSE search_pattern,
              regex_pattern |-> IF use_regex /\ is_some(search_pattern)
                                THEN Some(unwrap(search_pattern)) ELSE None,
              context_bytes |-> context_bytes]]

StringExtractor_new(min_len, encodings, search_pattern, use_regex, context_bytes) ==
    IF use_regex /\ is_some(search_pattern) /\ ~RegexCompiles(unwrap(search_pattern))
    THEN ErrRegex
    ELSE [ok |-> TRUE,
          config |->
             [min_len |-> min_len,
              encodings |-> {EncodingFrom(encodings[k]) : k \in 1..Len(encodings)},
              search_pattern |-> search_pattern,
              regex_pattern |-> IF use_regex /\ is_some(search_pattern)
                                THEN Some(unwrap(search_pattern)) ELSE None,
              context_bytes |-> context_bytes]]

(***************************************************************************)
(* Match filter and context capture                                         *)
(***************************************************************************)
\* the filter with the plain pattern tried before the regex
matches_search_criteria_plain_first(config, content) ==
    IF is_some(config.search_pattern)
    THEN Contains(content, unwrap(config.search_pattern))
    ELSE IF is_some(config.regex_pattern)
    THEN RegexIsMatch(unwrap(config.regex_pattern), content)
    ELSE TRUE

matches_search_criteria(config, content) ==
    IF is_some(config.regex_pattern)
    THEN RegexIsMatch(unwrap(config.regex_pattern), content)
    ELSE IF is_some(config.search_pattern)
    THEN Contains(content, unwrap(config.search_pattern))
    ELSE TRUE

\* extract_context with both sides present whenever a size is configured
extract_context_always_some(config, data, start, end) ==
    IF is_some(config.context_bytes)
    THEN LET context_size == unwrap(config.context_bytes)
             before_start == Max(start - context_size, 0)
             after_end == Min(end + context_size, Len(data))
         IN  [before |-> Some(Slice(data, before_start, start)),
              after |-> Some(Slice(data, end, after_end))]
    ELSE [before |-> None, after |-> None]

extract_context(config, data, start, end) ==
    IF is_some(config.context_bytes)
    THEN LET context_size == unwrap(config.context_bytes)
             before_start == Max(start - context_size, 0)
             after_end == Min(end + context_size, Len(data))
         IN  [before |-> IF before_start < start
                         THEN Some(Slice(data, before_start, start)) ELSE None,
              after |-> IF end < after_end
                        THEN Some(Slice(data, end, after_end)) ELSE None]
    ELSE [before |-> None, after |-> None]

FoundString(offset, content, encoding, byte_length, ctx) ==
    [offset |-> offset, content |-> content, encoding |-> encoding,
     byte_length |-> byte_length,
     context_before |-> ctx.before, context_after |-> ctx.after]

(***************************************************************************)
(* extract_ascii_utf8                                                       *)
(***************************************************************************)
RECURSIVE ascii_utf8_run_late_flag(_, _, _)
\* the inner loop marking a run as non-ASCII only where it breaks at a high-bit byte,
\* not where it skips a sequence
ascii_utf8_run_late_flag(data, i, has_non_ascii) ==
    LET data_len == Len(data)
        stop == [i |-> i, has_non_ascii |-> has_non_ascii]
    IN  IF ~(i < data_len) THEN stop
        ELSE LET byte == data[i + 1]
             IN  IF byte = 0 \/ (byte < 32 /\ byte # 9) THEN stop
                 ELSE IF is_printable_ascii(byte) \/ byte = 9
                 THEN ascii_utf8_run_late_flag(data, i + 1, has_non_ascii)
                 ELSE IF byte >= 128
                 THEN IF byte \div 32 = 6 /\ i + 1 < data_len
                      THEN ascii_utf8_run_late_flag(data, i + 2, has_non_ascii)
                      ELSE IF byte \div 16 = 14 /\ i + 2 < data_len
                      THEN ascii_utf8_run_late_flag(data, i + 3, has_non_ascii)
                      ELSE IF byte \div 8 = 30 /\ i + 3 < data_len
                      THEN ascii_utf8_run_late_flag(data, i + 4, has_non_ascii)
                      ELSE [i |-> i, has_non_ascii |-> TRUE]
                 ELSE stop

RECURSIVE ascii_utf8_run_unguarded(_, _, _)
\* the inner loop skipping a multi-byte sequence without looking at the bytes left
ascii_utf8_run_unguarded(data, i, has_non_ascii) ==
    LET data_len == Len(data)
        stop == [i |-> i, has_non_ascii |-> has_non_ascii]
    IN  IF ~(i < data_len) THEN stop
        ELSE LET byte == data[i + 1]
             IN  IF byte = 0 \/ (byte < 32 /\ byte # 9) THEN stop
                 ELSE IF is_printable_ascii(byte) \/ byte = 9
                 THEN ascii_utf8_run_unguarded(data, i + 1, has_non_ascii)
                 ELSE IF byte >= 128
                 THEN IF byte \div 32 = 6
                      THEN ascii_utf8_run_unguarded(data, i + 2, TRUE)
                      ELSE IF byte \div 16 = 14
                      THEN ascii_utf8_run_unguarded(data, i + 3, TRUE)
                      ELSE IF byte \div 8 = 30
                      THEN ascii_utf8_run_unguarded(data, i + 4, TRUE)
                      ELSE [i |-> i, has_non_ascii |-> TRUE]
                 ELSE stop

RECURSIVE ascii_utf8_run_reads(_, _)
\* the indices at which the inner while loop evaluates data[i] (line 136), from index i
ascii_utf8_run_reads(data, i) ==
    LET data_len == Len(data)
    IN  IF ~(i < data_len) THEN {}
        ELSE LET byte == data[i + 1]
             IN  {i} \cup
                 (IF byte = 0 \/ (byte < 32 /\ byte # 9) THEN {}
                  ELSE IF is_printable_ascii(byte) \/ byte = 9
                  THEN ascii_utf8_run_reads(data, i + 1)
                  ELSE IF byte >= 128
                  THEN IF byte \div 32 = 6 /\ i + 1 < data_len
                       THEN ascii_utf8_run_reads(data, i + 2)
                       ELSE IF byte \div 16 = 14 /\ i + 2 < data_len
                       THEN ascii_utf8_run_reads(data, i + 3)
                       ELSE IF byte \div 8 = 30 /\ i + 3 < data_len
                       THEN ascii_utf8_run_reads(data, i + 4)
                       ELSE {}
                  ELSE {})

\* the inner while loop: from index i to the index where the run stops
RECURSIVE ascii_utf8_run(_, _, _)
ascii_utf8_run(data, i, has_non_ascii) ==
    LET data_len == Len(data)
        stop == [i |-> i, has_non_ascii |-> has_non_ascii]
    IN  IF ~(i < data_len) THEN stop
        ELSE LET byte == data[i + 1]
             IN  IF byte = 0 \/ (byte < 32 /\ byte # 9) THEN stop
                 ELSE IF is_printable_ascii(byte) \/ byte = 9
                 THEN ascii_utf8_run(data, i + 1, has_non_ascii)
                 ELSE IF byte >= 128
                 THEN IF byte \div 32 = 6 /\ i + 1 < data_len
                      THEN ascii_utf8_run(data, i + 2, TRUE)
                      ELSE IF byte \div 16 = 14 /\ i + 2 < data_len
                      THEN ascii_utf8_run(data, i + 3, TRUE)
                      ELSE IF byte \div 8 = 30 /\ i + 3 < data_len
                      THEN ascii_utf8_run(data, i + 4, TRUE)
                      ELSE [i |-> i, has_non_ascii |-> TRUE]
                 ELSE stop

\* a projection that keeps the graphic bytes only
ascii_projection_graphic(string_bytes) ==
    [k \in 1..Len(string_bytes) |->
        LET b == string_bytes[k]
        IN  IF is_ascii_graphic(b) THEN b ELSE 63]

\* the ASCII projection of a span that failed UTF-8 validation
ascii_projection(string_bytes) ==
    [k \in 1..Len(string_bytes) |->
        LET b == string_bytes[k]
        IN  IF is_ascii_graphic(b) \/ b = 32 \/ b = 9 THEN b ELSE 63]

\* content and encoding of a qualifying span
ascii_utf8_decode(string_bytes, has_non_ascii) ==
    IF has_non_ascii
    THEN LET r == from_utf8(string_bytes)
         IN  IF r.ok THEN [content |-> r.chars, encoding |-> "Utf8"]
             ELSE [content |-> ascii_projection(string_bytes), encoding |-> "Ascii"]
    ELSE [content |-> string_bytes, encoding |-> "Ascii"]

\* ascii_utf8_emit with the base offset left out of the match
ascii_utf8_emit_local(config, data, base_offset, start, run) ==
    LET byte_length == run.i - start
    IN  IF byte_length >= config.min_len
        THEN LET d == ascii_utf8_decode(Slice(data, start, run.i), run.has_non_ascii)
             IN  IF matches_search_criteria(config, d.content)
                 THEN << FoundString(start, d.content, d.encoding,
                                     byte_length, extract_context(config, data, start, run.i)) >>
                 ELSE << >>
        ELSE << >>

\* ascii_utf8_emit without the test of the run's length
ascii_utf8_emit_any_length(config, data, base_offset, start, run) ==
    LET byte_length == run.i - start
        d == ascii_utf8_decode(Slice(data, start, run.i), run.has_non_ascii)
    IN  IF matches_search_criteria(config, d.content)
        THEN << FoundString(base_offset + start, d.content, d.encoding,
                            byte_length, extract_context(config, data, start, run.i)) >>
        ELSE << >>

\* the matches the run starting at index start adds to the results
ascii_utf8_emit(config, data, base_offset, start, run) ==
    LET byte_length == run.i - start
    IN  IF byte_length >= config.min_len
        THEN LET d == ascii_utf8_decode(Slice(data, start, run.i), run.has_non_ascii)
             IN  IF matches_search_criteria(config, d.content)
                 THEN << FoundString(base_offset + start, d.content, d.encoding,
                                     byte_length, extract_context(config, data, start, run.i)) >>
                 ELSE << >>
        ELSE << >>

RECURSIVE ascii_utf8_scan_tab_start(_, _, _, _, _)
\* the outer loop starting a run at a tab as well
ascii_utf8_scan_tab_start(config, data, base_offset, i, results) ==
    IF ~(i < Len(data)) THEN results
    ELSE IF is_printable_ascii(data[i + 1]) \/ data[i + 1] = 9
    THEN LET run == ascii_utf8_run(data, i, FALSE)
         IN  ascii_utf8_scan_tab_start(config, data, base_offset, run.i,
                 results \o ascii_utf8_emit(config, data, base_offset, i, run))
    ELSE ascii_utf8_scan_tab_start(config, data, base_offset, i + 1, results)

RECURSIVE ascii_utf8_scan(_, _, _, _, _)
ascii_utf8_scan(config, data, base_offset, i, results) ==
    IF ~(i < Len(data)) THEN results
    ELSE IF is_printable_ascii(data[i + 1])
    THEN LET run == ascii_utf8_run(data, i, FALSE)
         IN  ascii_utf8_scan(config, data, base_offset, run.i,
                 results \o ascii_utf8_emit(config, data, base_offset, i, run))
    ELSE ascii_utf8_scan(config, data, base_offset, i + 1, results)

extract_ascii_utf8(config, data, base_offset) ==
    ascii_utf8_scan(config, data, base_offset, 0, << >>)

(***************************************************************************)
(* extract_utf16le                                                          *)
(***************************************************************************)
RECURSIVE utf16le_run_short(_, _, _)
\* utf16le_run advancing one byte past a code unit outside the ASCII range
utf16le_run_short(data, i, utf16_bytes) ==
    IF ~(i + 1 < Len(data)) THEN [i |-> i, utf16_bytes |-> utf16_bytes]
    ELSE LET low == data[i + 1]
             high == data[i + 2]
         IN  IF low = 0 /\ high = 0 THEN [i |-> i, utf16_bytes |-> utf16_bytes]
             ELSE IF high = 0 /\ is_printable_ascii(low)
             THEN utf16le_run_short(data, i + 2, Append(utf16_bytes, low))
             ELSE LET code_unit == low + 256 * high
                  IN  IF high # 0
                      THEN [i |-> i + 1, utf16_bytes |-> Append(utf16_bytes, code_unit)]
                      ELSE utf16le_run_short(data, i + 2, Append(utf16_bytes, code_unit))

RECURSIVE utf16le_run(_, _, _)
utf16le_run(data, i, utf16_bytes) ==
    IF ~(i + 1 < Len(data)) THEN [i |-> i, utf16_bytes |-> utf16_bytes]
    ELSE LET low == data[i + 1]
             high == data[i + 2]
         IN  IF low = 0 /\ high = 0 THEN [i |-> i, utf16_bytes |-> utf16_bytes]
             ELSE IF high = 0 /\ is_printable_ascii(low)
             THEN utf16le_run(data, i + 2, Append(utf16_bytes, low))
             ELSE LET code_unit == low + 256 * high
                  IN  IF high # 0
                      THEN [i |-> i + 2, utf16_bytes |-> Append(utf16_bytes, code_unit)]
                      ELSE utf16le_run(data, i + 2, Append(utf16_bytes, code_unit))

\* utf16_emit with min_len compared to the byte span instead of the code units
utf16_emit_bytes(config, data, base_offset, start, run, encoding) ==
    LET byte_length == run.i - start
    IN  IF byte_length >= config.min_len
        THEN LET r == from_utf16(run.utf16_bytes)
             IN  IF r.ok /\ matches_search_criteria(config, r.chars)
                 THEN << FoundString(base_offset + start, r.chars, encoding,
                                     byte_length, extract_context(config, data, start, run.i)) >>
                 ELSE << >>
        ELSE << >>

\* utf16_emit decoding lossily: U+FFFD for every code unit of a run that does not decode
utf16_emit_lossy(config, data, base_offset, start, run, encoding) ==
    LET byte_length == run.i - start
    IN  IF Len(run.utf16_bytes) >= config.min_len
        THEN LET r == from_utf16(run.utf16_bytes)
                 chars == IF r.ok THEN r.chars
                          ELSE [k \in 1..Len(run.utf16_bytes) |-> 65533]
             IN  IF matches_search_criteria(config, chars)
                 THEN << FoundString(base_offset + start, chars, encoding,
                                     byte_length, extract_context(config, data, start, run.i)) >>
                 ELSE << >>
        ELSE << >>

utf16_emit(config, data, base_offset, start, run, encoding) ==
    LET byte_length == run.i - start
    IN  IF Len(run.utf16_bytes) >= config.min_len
        THEN LET r == from_utf16(run.utf16_bytes)
             IN  IF r.ok /\ matches_search_criteria(config, r.chars)
                 THEN << FoundString(base_offset + start, r.chars, encoding,
                                     byte_length, extract_context(config, data, start, run.i)) >>
                 ELSE << >>
        ELSE << >>

RECURSIVE utf16_run_reads(_, _, _)
\* the indices at which the inner while loop of either UTF-16 scanner evaluates data[i]
\* and data[i + 1], from index i; the two scanners advance alike and end a run at a
\* pair of zero bytes or after a unit whose high byte is not zero
utf16_run_reads(data, i, little_endian) ==
    IF ~(i + 1 < Len(data)) THEN {}
    ELSE LET high == IF little_endian THEN data[i + 2] ELSE data[i + 1]
             low == IF little_endian THEN data[i + 1] ELSE data[i + 2]
         IN  {i, i + 1} \cup
             (IF (low = 0 /\ high = 0) \/ high # 0 THEN {}
              ELSE utf16_run_reads(data, i + 2, little_endian))

RECURSIVE utf16le_scan(_, _, _, _, _)
utf16le_scan(config, data, base_offset, i, results) ==
    IF ~(i + 1 < Len(data)) THEN results
    ELSE IF is_printable_ascii(data[i + 1]) /\ data[i + 2] = 0
    THEN LET run == utf16le_run(data, i, << >>)
         IN  utf16le_scan(config, data, base_offset, run.i,
                 results \o utf16_emit(config, data, base_offset, i, run, "Utf16Le"))
    ELSE utf16le_scan(config, data, base_offset, i + 1, results)

extract_utf16le(config, data, base_offset) ==
    utf16le_scan(config, data, base_offset, 0, << >>)

(***************************************************************************)
(* extract_utf16be                                                          *)
(***************************************************************************)
RECURSIVE utf16be_run_strict(_, _, _)
\* utf16be_run ending the run at every code unit that is not plain ASCII
utf16be_run_strict(data, i, utf16_bytes) ==
    IF ~(i + 1 < Len(data)) THEN [i |-> i, utf16_bytes |-> utf16_bytes]
    ELSE LET high == data[i + 1]
             low == data[i + 2]
         IN  IF high = 0 /\ low = 0 THEN [i |-> i, utf16_bytes |-> utf16_bytes]
             ELSE IF high = 0 /\ is_printable_ascii(low)
             THEN utf16be_run_strict(data, i + 2, Append(utf16_bytes, low))
             ELSE [i |-> i + 2, utf16_bytes |-> Append(utf16_bytes, 256 * high + low)]

RECURSIVE utf16be_run(_, _, _)
utf16be_run(data, i, utf16_bytes) ==
    IF ~(i + 1 < Len(data)) THEN [i |-> i, utf16_bytes |-> utf16_bytes]
    ELSE LET high == data[i + 1]
             low == data[i + 2]
         IN  IF high = 0 /\ low = 0 THEN [i |-> i, utf16_bytes |-> utf16_bytes]
             ELSE IF high = 0 /\ is_printable_ascii(low)
             THEN utf16be_run(data, i + 2, Append(utf16_bytes, low))
             ELSE LET code_unit == 256 * high + low
                  IN  IF high # 0
                      THEN [i |-> i + 2, utf16_bytes |-> Append(utf16_bytes, code_unit)]
                      ELSE utf16be_run(data, i + 2, Append(utf16_bytes, code_unit))

RECURSIVE utf16be_scan(_, _, _, _, _)
utf16be_scan(config, data, base_offset, i, results) ==
    IF ~(i + 1 < Len(data)) THEN results
    ELSE IF data[i + 1] = 0 /\ is_printable_ascii(data[i + 2])
    THEN LET run == utf16be_run(data, i, << >>)
         IN  utf16be_scan(config, data, base_offset, run.i,
                 results \o utf16_emit(config, data, base_offset, i, run, "Utf16Be"))
    ELSE utf16be_scan(config, data, base_offset, i + 1, results)

extract_utf16be(config, data, base_offset) ==
    utf16be_scan(config, data, base_offset, 0, << >>)

(***************************************************************************)
(* extract_gbk                                                              *)
(***************************************************************************)
gbk_second_byte(second_byte) ==
    (second_byte >= 64 /\ second_byte <= 126) \/ (second_byte >= 128 /\ second_byte <= 254)

\* an inner loop that is left at the first invalid byte, which it does not consume
gbk_run_no_skip(data, i, gbk_bytes, consecutive_invalid, max_string_length) ==
    LET data_len == Len(data)
        IsUnit(j) ==
            \/ data[j + 1] >= 32 /\ data[j + 1] <= 126
            \/ /\ data[j + 1] >= 129 /\ data[j + 1] <= 254 /\ j + 1 < data_len
               /\ gbk_second_byte(data[j + 2])
    IN  IF i < data_len /\ IsUnit(i)
        THEN [i |-> IF data[i + 1] <= 126 THEN i + 1 ELSE i + 2,
              gbk_bytes |-> IF data[i + 1] <= 126 THEN << data[i + 1] >>
                            ELSE << data[i + 1], data[i + 2] >>]
        ELSE [i |-> i, gbk_bytes |-> gbk_bytes]

RECURSIVE gbk_run(_, _, _, _, _)
gbk_run(data, i, gbk_bytes, consecutive_invalid, max_string_length) ==
    LET data_len == Len(data)
        stop == [i |-> i, gbk_bytes |-> gbk_bytes]
    IN  IF ~(i < data_len /\ Len(gbk_bytes) < max_string_length) THEN stop
        ELSE LET byte == data[i + 1]
             IN  IF byte = 0 \/ (byte < 32 /\ byte # 9) THEN stop
                 ELSE IF byte >= 32 /\ byte <= 126
                 THEN gbk_run(data, i + 1, Append(gbk_bytes, byte), 0, max_string_length)
                 ELSE IF /\ byte >= 129 /\ byte <= 254 /\ i + 1 < data_len
                         /\ gbk_second_byte(data[i + 2])
                 THEN gbk_run(data, i + 2, gbk_bytes \o << byte, data[i + 2] >>, 0,
                              max_string_length)
                 ELSE IF consecutive_invalid + 1 >= MAX_INVALID_BYTES THEN stop
                 ELSE gbk_run(data, i + 1, gbk_bytes, consecutive_invalid + 1,
                              max_string_length)

\* gbk_emit with the test of the accumulated bytes only
gbk_emit_by_bytes(config, data, base_offset, start, run) ==
    LET byte_length == run.i - start
        decoded == gbk_decode(run.gbk_bytes)
    IN  IF Len(run.gbk_bytes) >= config.min_len /\ matches_search_criteria(config, decoded)
        THEN << FoundString(base_offset + start, decoded, "Gbk",
                            byte_length, extract_context(config, data, start, run.i)) >>
        ELSE << >>

gbk_emit(config, data, base_offset, start, run) ==
    LET byte_length == run.i - start
    IN  IF Len(run.gbk_bytes) >= config.min_len
        THEN LET decoded == gbk_decode(run.gbk_bytes)
             IN  IF /\ ~trim_is_empty(decoded)
                    /\ Len(decoded) >= config.min_len \div 2
                    /\ matches_search_criteria(config, decoded)
                 THEN << FoundString(base_offset + start, decoded, "Gbk",
                                     byte_length, extract_context(config, data, start, run.i)) >>
                 ELSE << >>
        ELSE << >>

RECURSIVE gbk_run_reads(_, _, _, _, _)
\* the indices at which the inner while loop evaluates data[i] (line 359) and
\* data[i + 1] (line 376), from index i with gbk_len bytes accumulated
gbk_run_reads(data, i, gbk_len, consecutive_invalid, max_string_length) ==
    LET data_len == Len(data)
    IN  IF ~(i < data_len /\ gbk_len < max_string_length) THEN {}
        ELSE LET byte == data[i + 1]
                 second == IF byte >= 129 /\ byte <= 254 /\ i + 1 < data_len
                           THEN {i + 1} ELSE {}
             IN  IF byte = 0 \/ (byte < 32 /\ byte # 9) THEN {i}
                 ELSE IF byte >= 32 /\ byte <= 126
                 THEN {i} \cup gbk_run_reads(data, i + 1, gbk_len + 1, 0, max_string_length)
                 ELSE IF /\ byte >= 129 /\ byte <= 254 /\ i + 1 < data_len
                         /\ gbk_second_byte(data[i + 2])
                 THEN {i, i + 1}
                      \cup gbk_run_reads(data, i + 2, gbk_len + 2, 0, max_string_length)
                 ELSE IF consecutive_invalid + 1 >= MAX_INVALID_BYTES THEN {i} \cup second
                 ELSE {i} \cup second
                      \cup gbk_run_reads(data, i + 1, gbk_len, consecutive_invalid + 1,
                                         max_string_length)

RECURSIVE gbk_scan_restart(_, _, _, _, _, _)
\* the outer loop resuming one byte after the start of a run instead of at its end
gbk_scan_restart(config, data, base_offset, i, results, max_string_length) ==
    IF ~(i < Len(data)) THEN results
    ELSE IF data[i + 1] >= 129 /\ data[i + 1] <= 254
    THEN LET run == gbk_run(data, i, << >>, 0, max_string_length)
         IN  gbk_scan_restart(config, data, base_offset, i + 1,
                 results \o gbk_emit(config, data, base_offset, i, run), max_string_length)
    ELSE gbk_scan_restart(config, data, base_offset, i + 1, results, max_string_length)

RECURSIVE gbk_scan(_, _, _, _, _, _)
gbk_scan(config, data, base_offset, i, results, max_string_length) ==
    IF ~(i < Len(data)) THEN results
    ELSE IF data[i + 1] >= 129 /\ data[i + 1] <= 254
    THEN LET run == gbk_run(data, i, << >>, 0, max_string_length)
         IN  gbk_scan(config, data, base_offset, run.i,
                 results \o gbk_emit(config, data, base_offset, i, run), max_string_length)
    ELSE gbk_scan(config, data, base_offset, i + 1, results, max_string_length)

\* lines 358-395: one iteration of the inner loop, on the locals g of extract_gbk; the
\* loop is left by moving to "emit"
gbk_inner_iteration(data, g) ==
    LET data_len == Len(data)
        i == g.i
        leave == [g EXCEPT !.pc = "emit"]
    IN  IF ~(i < data_len /\ Len(g.gbk_bytes) < g.max_string_length) THEN leave
        ELSE LET byte == data[i + 1]
             IN  IF byte = 0 \/ (byte < 32 /\ byte # 9) THEN leave
                 ELSE IF byte >= 32 /\ byte <= 126
                 THEN [g EXCEPT !.gbk_bytes = Append(@, byte),
                                !.consecutive_invalid = 0, !.i = i + 1]
                 ELSE IF /\ byte >= 129 /\ byte <= 254 /\ i + 1 < data_len
                         /\ gbk_second_byte(data[i + 2])
                 THEN [g EXCEPT !.gbk_bytes = @ \o << byte, data[i + 2] >>,
                                !.consecutive_invalid = 0, !.i = i + 2]
                 ELSE IF g.consecutive_invalid + 1 >= MAX_INVALID_BYTES
                 THEN [leave EXCEPT !.consecutive_invalid = @ + 1]
                 ELSE [g EXCEPT !.consecutive_invalid = @ + 1, !.i = i + 1]

extract_gbk(config, data, base_offset) ==
    gbk_scan(config, data, base_offset, 0, << >>, MAX_STRING_LENGTH)

(***************************************************************************)
(* extract_strings                                                          *)
(***************************************************************************)
\* extract_strings with one pass of the ASCII/UTF-8 scanner for each of the two tags
extract_strings_per_tag(config, data, base_offset) ==
    (IF "Ascii" \in config.encodings
     THEN extract_ascii_utf8(config, data, base_offset) ELSE << >>)
    \o (IF "Utf8" \in config.encodings
        THEN extract_ascii_utf8(config, data, base_offset) ELSE << >>)
    \o (IF "Utf16Le" \in config.encodings
        THEN extract_utf16le(config, data, base_offset) ELSE << >>)
    \o (IF "Utf16Be" \in config.encodings
        THEN extract_utf16be(config, data, base_offset) ELSE << >>)
    \o (IF "Gbk" \in config.encodings
        THEN extract_gbk(config, data, base_offset) ELSE << >>)

extract_strings(config, data, base_offset) ==
    (IF "Ascii" \in config.encodings \/ "Utf8" \in config.encodings
     THEN extract_ascii_utf8(config, data, base_offset) ELSE << >>)
    \o (IF "Utf16Le" \in config.encodings
        THEN extract_utf16le(config, data, base_offset) ELSE << >>)
    \o (IF "Utf16Be" \in config.encodings
        THEN extract_utf16be(config, data, base_offset) ELSE << >>)
    \o (IF "Gbk" \in config.encodings
        THEN extract_gbk(config, data, base_offset) ELSE << >>)

(***************************************************************************)
(* Config (src/memstrap/src/config.rs)                                      *)
(***************************************************************************)
get_encodings(config) ==
    IF config.encodings = << >>
    THEN << "Ascii", "Utf8", "Utf16Le", "Utf16Be" >>
    ELSE config.encodings

\* num_cpus is what num_cpus::get() returns on the host
get_threads(config, num_cpus) ==
    IF is_some(config.threads) THEN unwrap(config.threads)
    ELSE Min(num_cpus, default_thread_cap)

(***************************************************************************)
(* The chunk planner of main.  geometry holds min_chunk_size, overlap_size  *)
(* and the large-file threshold: Geometry are the program's values; the     *)
(* pipeline that scans real bytes runs the same planner under               *)
(* ScaledGeometry, whose chunks are small enough to enumerate their bytes.  *)
(***************************************************************************)
Geometry ==
    [min_chunk_size |-> min_chunk_size,
     overlap_size |-> overlap_size,
     large_file_size |-> large_file_size]

ScaledGeometry ==
    [min_chunk_size |-> ScaledMinChunk,
     overlap_size |-> ScaledOverlap,
     large_file_size |-> ScaledLargeFile]

\* optimal_threads without the limit for large files
optimal_threads_unlimited(geometry, len, max_threads) == max_threads

optimal_threads(geometry, len, max_threads) ==
    IF len > geometry.large_file_size
    THEN Min(max_threads, large_file_threads)
    ELSE max_threads

num_threads(geometry, len, max_threads) ==
    IF len < geometry.min_chunk_size THEN 1
    ELSE Min(optimal_threads(geometry, len, max_threads), len \div geometry.min_chunk_size)

\* mmap.len() / num_threads panics when num_threads = 0
chunk_size_panics(n) == n = 0

chunk_size(len, n) == IF n = 1 THEN len ELSE len \div n

\* chunk with the last chunk widened like the others
chunk_all_widened(geometry, len, n, i) ==
    LET start == i * chunk_size(len, n)
    IN  [start |-> start,
         end |-> (i + 1) * chunk_size(len, n) + geometry.overlap_size,
         base_offset |-> start]

\* chunk widened by a whole chunk size more than the overlap
chunk_double_width(geometry, len, n, i) ==
    LET start == i * chunk_size(len, n)
    IN  [start |-> start,
         end |-> IF i = n - 1 THEN len
                 ELSE Min((i + 2) * chunk_size(len, n) + geometry.overlap_size, len),
         base_offset |-> start]

chunk(geometry, len, n, i) ==
    LET start == i * chunk_size(len, n)
    IN  [start |-> start,
         end |-> IF i = n - 1 THEN len
                 ELSE Min((i + 1) * chunk_size(len, n) + geometry.overlap_size, len),
         base_offset |-> start]

\* chunks[i + 1] is the chunk of index i
plan_chunks(geometry, len, n) == [k \in 1..n |-> chunk(geometry, len, n, k - 1)]

(***************************************************************************)
(* Dedup/Merge of main: sort_by_key (stable) and dedup_by_key on offset     *)
(***************************************************************************)
RECURSIVE flatten(_, _)
\* the order rayon's collect gives: the chunks' results in chunk-index order
flatten(lists, k) ==
    IF k > Len(lists) THEN << >> ELSE lists[k] \o flatten(lists, k + 1)

\* x goes after every element whose key is not greater: the sort is stable

RECURSIVE collect_as_completed(_, _)
\* a collection that appends each task's results when the task completes
collect_as_completed(per_chunk, completion_order) ==
    IF completion_order = << >> THEN << >>
    ELSE per_chunk[Head(completion_order)]
         \o collect_as_completed(per_chunk, Tail(completion_order))

\* line 130: collect() of the indexed parallel iterator; the order in which the tasks
\* completed is not an input of the result
collect(per_chunk, completion_order) == flatten(per_chunk, 1)

insert_by_key(sorted, x) ==
    LET n == Cardinality({k \in 1..Len(sorted) : sorted[k].offset <= x.offset})
    IN  SubSeq(sorted, 1, n) \o << x >> \o SubSeq(sorted, n + 1, Len(sorted))

RECURSIVE sort_from(_, _, _)
sort_from(v, k, sorted) ==
    IF k > Len(v) THEN sorted ELSE sort_from(v, k + 1, insert_by_key(sorted, v[k]))

\* the merge with the sort left out
sort_by_key_skipped(v) == v

sort_by_key(v) == sort_from(v, 1, << >>)

RECURSIVE dedup_from(_, _, _)
\* an element is dropped when its key equals the key of the last one kept
dedup_from(v, k, kept) ==
    IF k > Len(v) THEN kept
    ELSE IF kept # << >> /\ kept[Len(kept)].offset = v[k].offset
    THEN dedup_from(v, k + 1, kept)
    ELSE dedup_from(v, k + 1, Append(kept, v[k]))

RECURSIVE dedup_content_from(_, _, _)
dedup_content_from(v, k, kept) ==
    IF k > Len(v) THEN kept
    ELSE IF kept # << >> /\ kept[Len(kept)].content = v[k].content
    THEN dedup_content_from(v, k + 1, kept)
    ELSE dedup_content_from(v, k + 1, Append(kept, v[k]))

\* dedup keyed on the content instead of the offset
dedup_by_content(v) == dedup_content_from(v, 1, << >>)

RECURSIVE dedup_last_from(_, _, _)
dedup_last_from(v, k, kept) ==
    IF k > Len(v) THEN kept
    ELSE IF kept # << >> /\ kept[Len(kept)].offset = v[k].offset
    THEN dedup_last_from(v, k + 1, [kept EXCEPT ![Len(kept)] = v[k]])
    ELSE dedup_last_from(v, k + 1, Append(kept, v[k]))

\* dedup that keeps the last element of each group
dedup_by_key_keep_last(v) == dedup_last_from(v, 1, << >>)

dedup_by_key(v) == dedup_from(v, 1, << >>)

(***************************************************************************)
(* State                                                                    *)
(***************************************************************************)
VARIABLES
    pc,               \* where main (or the library caller) stands
    mmap,             \* the input bytes
    mmap_len,         \* mmap.len()
    geometry,         \* the planner's sizes
    cli,              \* Config, as parsed from the command line
    num_cpus,         \* num_cpus::get()
    base_offset,      \* the base_offset of a direct extract_strings call
    extractor,        \* Result<StringExtractor>, None before construction
    chunks,           \* Vec<(start, end, base_offset)>
    task,             \* per chunk: "todo" or "done"
    chunk_results,    \* per chunk: what its task returned
    processed_count,  \* the AtomicUsize progress counter
    results,          \* the collected (or returned) Vec<FoundString>
    unique_results,   \* results after sort and dedup
    finished,         \* the chunk indices in the order their tasks completed
    gbk               \* the locals of extract_gbk while it runs step by step

vars == << pc, mmap, mmap_len, geometry, cli, num_cpus, base_offset, extractor, chunks,
           task, chunk_results, processed_count, results, unique_results, finished, gbk >>

BoundedSeq(S, n) == UNION {[1..k -> S] : k \in 0..n}

\* search and regex of Config, and what they stand for
NoFilter == [search |-> None, regex |-> FALSE]
Filters ==
    {NoFilter,
     [search |-> None, regex |-> TRUE],
     [search |-> Some(<< 65 >>), regex |-> FALSE],
     [search |-> Some(<< 46 >>), regex |-> FALSE],
     [search |-> Some(<< 46 >>), regex |-> TRUE],
     [search |-> Some(<< 65, 46 >>), regex |-> TRUE],
     [search |-> Some(<< 40 >>), regex |-> FALSE],
     [search |-> Some(<< 40 >>), regex |-> TRUE]}

AllEncodings == << "Ascii", "Utf8", "Utf16Le", "Utf16Be", "Gbk" >>
EncodingLists ==
    {AllEncodings, << >>, << "Ascii" >>, << "Utf8" >>, << "Utf16Le" >>, << "Utf16Be" >>,
     << "Gbk" >>, << "Utf8", "Ascii", "Utf8" >>}

\* NUL, tab, '.', 'A', a continuation byte, a two-byte lead (and surrogate high byte)
ScanBytes == {0, 9, 46, 65, 169, 216}
\* line feed, DEL, three- and four-byte leads, 0xFF
ExtraBytes == {10, 65, 127, 169, 228, 240, 255}

\* the GBK bytes of test_gbk_extraction
GbkTest == << 196, 227, 186, 195, 202, 192, 189, 231 >>

\* two GBK pairs that begin with the UTF-8 byte order mark
BomTest == << 239, 187, 191, 65 >>

\* "Hello" in UTF-16LE with its terminator; "A" and U+1F600 in UTF-8;
\* the GBK bytes of the extractor's own test; the byte order mark
ScenarioBuffers ==
    {<< 72, 0, 101, 0, 108, 0, 108, 0, 111, 0, 0, 0 >>,
     << 65, 240, 159, 152, 128 >>,
     GbkTest,
     BomTest}

\* space, the two bytes of the ideographic space, a lead byte; scanned with the
\* default arguments
GbkEdgeBytes == {32, 161, 216}

GbkEdgeBuffers == BoundedSeq(GbkEdgeBytes, MaxLen - 1)

\* NUL, U+0001 and tab as low bytes; 0x01 and 'A' as high bytes
Utf16Bytes == {0, 1, 9, 65}

\* buffers of up to Utf16Len bytes, scanned with the default arguments
Utf16Buffers == BoundedSeq(Utf16Bytes, Utf16Len)

Utf16Args ==
    [min_len : {1}, encodings : {AllEncodings}, filter : {NoFilter},
     context_bytes : {None}, base_offset : {0}]

\* NUL, 'A' and the high byte 0xD8 of a surrogate, scanned with the default arguments
SurrogateBytes == {0, 65, 216}

SurrogateBuffers == BoundedSeq(SurrogateBytes, Utf16Len)

ScanBuffers ==
    BoundedSeq(ScanBytes, MaxLen) \cup BoundedSeq(ExtraBytes, MaxLen - 1)

\* the buffers that are scanned under every explored argument
ShortBuffers ==
    BoundedSeq(ScanBytes, MaxLen - 1) \cup BoundedSeq(ExtraBytes, MaxLen - 1)

\* the arguments of StringExtractor::new and extract_strings that are explored:
\* min_len 1, every encoding, no filter, no context and base 0 (Utf16Args, for every
\* buffer), and with each one of the five away from that at a time (for ShortBuffers)
ScanArgs ==
    {a \in [min_len : 0..MaxMinLen, encodings : EncodingLists, filter : Filters,
            context_bytes : {None, Some(0), Some(1), Some(MaxLen)},
            base_offset : {0, BaseSample}] :
        Cardinality({d \in {"m", "e", "f", "c", "b"} :
            \/ d = "m" /\ a.min_len # 1
            \/ d = "e" /\ a.encodings # AllEncodings
            \/ d = "f" /\ a.filter # NoFilter
            \/ d = "c" /\ a.context_bytes # None
            \/ d = "b" /\ a.base_offset # 0}) <= 1}

ScenarioArgs ==
    [min_len : {4}, encodings : {AllEncodings}, filter : {NoFilter},
     context_bytes : {None}, base_offset : {0}]

\* b"Hello World! This is a test." of test_ascii_extraction
HelloWorldTest ==
    << 72, 101, 108, 108, 111, 32, 87, 111, 114, 108, 100, 33, 32, 84,
       104, 105, 115, 32, 105, 115, 32, 97, 32, 116, 101, 115, 116, 46 >>

\* min_len = 4, encodings = {ASCII, UTF-8}, no filter
ScenarioA ==
    [min_len |-> 4, encodings |-> << "Ascii", "Utf8" >>, filter |-> NoFilter,
     context_bytes |-> None, base_offset |-> 0]

Cli(a, threads) ==
    [min_len |-> a.min_len, encodings |-> a.encodings, search |-> a.filter.search,
     regex |-> a.filter.regex, context_bytes |-> a.context_bytes, threads |-> threads]

\* extract_gbk has not been entered
GbkIdle == [pc |-> "idle"]

Idle ==
    /\ extractor = None
    /\ chunks = << >>
    /\ task = << >>
    /\ chunk_results = << >>
    /\ processed_count = 0
    /\ results = << >>
    /\ unique_results = << >>
    /\ finished = << >>
    /\ gbk = GbkIdle

(***************************************************************************)
(* ScanSpec: a caller of the library constructs an extractor and calls      *)
(* extract_strings on a buffer.                                             *)
(***************************************************************************)
ScanInit ==
    /\ pc = "start"
    /\ \E s \in (ShortBuffers \X ScanArgs) \cup (ScenarioBuffers \X ScenarioArgs)
                 \cup ((ScanBuffers \cup Utf16Buffers \cup SurrogateBuffers
                        \cup GbkEdgeBuffers) \X Utf16Args)
                 \cup {<< HelloWorldTest, ScenarioA >>} :
         /\ mmap = s[1]
         /\ cli = Cli(s[2], None)
         /\ base_offset = s[2].base_offset
    /\ mmap_len = Len(mmap)
    /\ geometry = Geometry
    /\ num_cpus = 1
    /\ Idle

New ==
    /\ pc = "start"
    /\ extractor' = Some(StringExtractor_new(cli.min_len, cli.encodings, cli.search,
                                             cli.regex, cli.context_bytes))
    /\ pc' = IF unwrap(extractor').ok THEN "ready" ELSE "error"
    /\ UNCHANGED << mmap, mmap_len, geometry, cli, num_cpus, base_offset, chunks, task,
                    chunk_results, processed_count, results, unique_results,
                    finished, gbk >>

ExtractStrings ==
    /\ pc = "ready"
    /\ results' = extract_strings(unwrap(extractor).config, mmap, base_offset)
    /\ pc' = "returned"
    /\ UNCHANGED << mmap, mmap_len, geometry, cli, num_cpus, base_offset, extractor, chunks,
                    task, chunk_results, processed_count, unique_results,
                    finished, gbk >>

ScanNext == New \/ ExtractStrings

ScanSpec == ScanInit /\ [][ScanNext]_vars

(***************************************************************************)
(* main                                                                     *)
(***************************************************************************)
\* lines 42-50: the extractor, or exit(1)
CreateExtractor ==
    /\ pc = "start"
    /\ extractor' = Some(StringExtractor_new(cli.min_len, get_encodings(cli), cli.search,
                                             cli.regex, cli.context_bytes))
    /\ pc' = IF unwrap(extractor').ok THEN "plan" ELSE "exit"
    /\ UNCHANGED << mmap, mmap_len, geometry, cli, num_cpus, base_offset, chunks, task,
                    chunk_results, processed_count, results, unique_results,
                    finished, gbk >>

\* lines 52-106: the chunks, or the panic of the division by num_threads
PlanChunks ==
    /\ pc = "plan"
    /\ LET n == num_threads(geometry, mmap_len, get_threads(cli, num_cpus))
       IN  IF chunk_size_panics(n)
           THEN /\ pc' = "panic"
                /\ UNCHANGED << chunks, task, chunk_results >>
           ELSE /\ pc' = "scan"
                /\ chunks' = plan_chunks(geometry, mmap_len, n)
                /\ task' = [k \in 1..n |-> "todo"]
                /\ chunk_results' = [k \in 1..n |-> << >>]
    /\ UNCHANGED << mmap, mmap_len, geometry, cli, num_cpus, base_offset, extractor,
                    processed_count, results, unique_results,
                    finished, gbk >>

\* the chunk task storing the number of its chunk in the counter instead of adding 1
ScanChunk_store(k) ==
    /\ pc = "scan"
    /\ task[k] = "todo"
    /\ LET c == chunks[k]
           chunk_data == Slice(mmap, c.start, c.end)
       IN  chunk_results' =
               [chunk_results EXCEPT
                   ![k] = extract_strings(unwrap(extractor).config, chunk_data, c.base_offset)]
    /\ processed_count' = k
    /\ task' = [task EXCEPT ![k] = "done"]
    /\ finished' = Append(finished, k)
    /\ UNCHANGED << pc, mmap, mmap_len, geometry, cli, num_cpus, base_offset, extractor,
                    chunks, results, unique_results, gbk >>

\* lines 115-129: the task of one chunk, run by some worker
ScanChunk(k) ==
    /\ pc = "scan"
    /\ task[k] = "todo"
    /\ LET c == chunks[k]
           chunk_data == Slice(mmap, c.start, c.end)
       IN  chunk_results' =
               [chunk_results EXCEPT
                   ![k] = extract_strings(unwrap(extractor).config, chunk_data, c.base_offset)]
    /\ processed_count' = processed_count + 1
    /\ task' = [task EXCEPT ![k] = "done"]
    /\ finished' = Append(finished, k)
    /\ UNCHANGED << pc, mmap, mmap_len, geometry, cli, num_cpus, base_offset, extractor,
                    chunks, results, unique_results, gbk >>

\* collect returning without waiting for the tasks
Collect_early ==
    /\ pc = "scan"
    /\ results' = collect(chunk_results, finished)
    /\ pc' = "merge"
    /\ UNCHANGED << mmap, mmap_len, geometry, cli, num_cpus, base_offset, extractor, chunks,
                    task, chunk_results, processed_count, unique_results,
                    finished, gbk >>

\* line 130: collect returns once every task has finished
Collect ==
    /\ pc = "scan"
    /\ \A k \in DOMAIN task : task[k] = "done"
    /\ results' = collect(chunk_results, finished)
    /\ pc' = "merge"
    /\ UNCHANGED << mmap, mmap_len, geometry, cli, num_cpus, base_offset, extractor, chunks,
                    task, chunk_results, processed_count, unique_results,
                    finished, gbk >>

\* lines 136-141
SortDedup ==
    /\ pc = "merge"
    /\ unique_results' = dedup_by_key(sort_by_key(results))
    /\ pc' = "done"
    /\ UNCHANGED << mmap, mmap_len, geometry, cli, num_cpus, base_offset, extractor, chunks,
                    task, chunk_results, processed_count, results,
                    finished, gbk >>

\* NUL, 'A', a two-byte lead
PipeBytes == {0, 65, 216}

PipeArgs ==
    {a \in [min_len : {1, MaxMinLen}, encodings : {<< >>, << "Ascii", "Gbk" >>},
            filter : {NoFilter, [search |-> Some(<< 40 >>), regex |-> TRUE]},
            context_bytes : {None}, base_offset : {0}] :
        a.filter # NoFilter => (a.min_len = 1 /\ a.encodings = << >>)}

Init ==
    /\ pc = "start"
    /\ mmap \in BoundedSeq(PipeBytes, PipeLen)
    /\ mmap_len = Len(mmap)
    /\ geometry = ScaledGeometry
    /\ \E a \in PipeArgs :
         \E t \in {None} \cup {Some(n) : n \in 0..PipeThreads} :
            /\ cli = Cli(a, t)
            /\ (a.filter # NoFilter => t = None)
    /\ num_cpus = 2
    /\ base_offset = 0
    /\ Idle

Next ==
    \/ CreateExtractor
    \/ PlanChunks
    \/ \E k \in DOMAIN chunks : ScanChunk(k)
    \/ Collect
    \/ SortDedup

Spec == Init /\ [][Next]_vars

(***************************************************************************)
(* PlanSpec: the planner alone, on the program's sizes; of the input only   *)
(* its length matters.                                                      *)
(***************************************************************************)
PlanLengths ==
    {0, large_file_size, large_file_size + 1}
    \cup {m * min_chunk_size + d : m \in 1..PlanMul, d \in {-1, 0, 1, overlap_size}}

PlanInit ==
    /\ pc = "plan"
    /\ mmap = << >>
    /\ mmap_len \in PlanLengths
    /\ geometry = Geometry
    /\ \/ /\ \E t \in 0..PlanThreads : cli = Cli(CHOOSE a \in ScenarioArgs : TRUE, Some(t))
          /\ num_cpus = 1
       \/ /\ cli = Cli(CHOOSE a \in ScenarioArgs : TRUE, None)
          /\ num_cpus \in {1, 4, 16}
    /\ base_offset = 0
    /\ Idle

PlanNext == PlanChunks

PlanSpec == PlanInit /\ [][PlanNext]_vars

(***************************************************************************)
(* GbkSpec: extract_gbk taken one loop iteration at a time, with a small    *)
(* MAX_STRING_LENGTH so that short buffers reach the cap.                   *)
(***************************************************************************)
\* NUL, tab (an invalid byte inside a run), 'A' (also a second byte), a lead byte
GbkBytes == {0, 9, 65, 216}

GbkArgs ==
    [min_len : {1, MaxMinLen}, encodings : {<< "Gbk" >>}, filter : {NoFilter},
     context_bytes : {None}, base_offset : {0}]

GbkInit ==
    /\ pc = "start"
    /\ mmap \in BoundedSeq(GbkBytes, GbkLen)
    /\ mmap_len = Len(mmap)
    /\ geometry = Geometry
    /\ \E a \in GbkArgs : cli = Cli(a, None)
    /\ num_cpus = 1
    /\ base_offset = 0
    /\ Idle

\* lines 343-345: the locals on entry
GbkEnter ==
    /\ pc = "ready"
    /\ pc' = "gbk"
    /\ gbk' = [pc |-> "outer", i |-> 0, start |-> 0, gbk_bytes |-> << >>,
               consecutive_invalid |-> 0, results |-> << >>,
               max_string_length |-> ScaledMaxString]
    /\ UNCHANGED << mmap, mmap_len, geometry, cli, num_cpus, base_offset, extractor, chunks,
                    task, chunk_results, processed_count, results, unique_results,
                    finished >>

\* lines 347-355 and 418-423: one iteration of the outer loop up to the inner loop, or
\* the return of results
GbkOuterLoop ==
    /\ pc = "gbk"
    /\ gbk.pc = "outer"
    /\ IF ~(gbk.i < Len(mmap))
       THEN /\ gbk' = [gbk EXCEPT !.pc = "done"]
            /\ results' = gbk.results
            /\ pc' = "returned"
       ELSE /\ gbk' = IF mmap[gbk.i + 1] >= 129 /\ mmap[gbk.i + 1] <= 254
                      THEN [gbk EXCEPT !.pc = "inner", !.start = gbk.i,
                                       !.gbk_bytes = << >>, !.consecutive_invalid = 0]
                      ELSE [gbk EXCEPT !.i = @ + 1]
            /\ UNCHANGED << pc, results >>
    /\ UNCHANGED << mmap, mmap_len, geometry, cli, num_cpus, base_offset, extractor, chunks,
                    task, chunk_results, processed_count, unique_results, finished >>

\* lines 358-395
GbkInnerLoop ==
    /\ pc = "gbk"
    /\ gbk.pc = "inner"
    /\ gbk' = gbk_inner_iteration(mmap, gbk)
    /\ UNCHANGED << pc, mmap, mmap_len, geometry, cli, num_cpus, base_offset, extractor,
                    chunks, task, chunk_results, processed_count, results, unique_results,
                    finished >>

\* lines 397-417
GbkEmit ==
    /\ pc = "gbk"
    /\ gbk.pc = "emit"
    /\ gbk' = [gbk EXCEPT
                  !.pc = "outer",
                  !.results = @ \o gbk_emit(unwrap(extractor).config, mmap, base_offset,
                                            gbk.start, [i |-> gbk.i, gbk_bytes |-> gbk.gbk_bytes])]
    /\ UNCHANGED << pc, mmap, mmap_len, geometry, cli, num_cpus, base_offset, extractor,
                    chunks, task, chunk_results, processed_count, results, unique_results,
                    finished >>

GbkNext == New \/ GbkEnter \/ GbkOuterLoop \/ GbkInnerLoop \/ GbkEmit

GbkSpec == GbkInit /\ [][GbkNext]_vars

\* the iterations give what the scanner as a whole gives
GbkStepsAgree ==
    pc = "returned" /\ gbk.pc = "done" =>
        results = gbk_scan(unwrap(extractor).config, mmap, base_offset, 0, << >>,
                           ScaledMaxString)

(***************************************************************************)
(* What a match says about the bytes it was read from                       *)
(***************************************************************************)
Range(seq) == {seq[k] : k \in 1..Len(seq)}

Offsets(seq) == {seq[k].offset : k \in 1..Len(seq)}

\* the 16-bit code units of a span, little endian or big endian
UnitsOf(span, le) ==
    [k \in 1..(Len(span) \div 2) |->
        IF le THEN span[2 * k - 1] + 256 * span[2 * k]
        ELSE 256 * span[2 * k - 1] + span[2 * k]]

\* the byte at zero-based position start of data can start a run of the encoding
StartsRun(data, start, encoding) ==
    CASE encoding \in {"Ascii", "Utf8"} -> is_printable_ascii(data[start + 1])
      [] encoding = "Utf16Le" ->
            /\ start + 1 < Len(data)
            /\ is_printable_ascii(data[start + 1]) /\ data[start + 2] = 0
      [] encoding = "Utf16Be" ->
            /\ start + 1 < Len(data)
            /\ data[start + 1] = 0 /\ is_printable_ascii(data[start + 2])
      [] encoding = "Gbk" -> data[start + 1] >= 129 /\ data[start + 1] <= 254

\* the content of m is what its encoding reads from span
Reads(span, m) ==
    CASE m.encoding = "Ascii" ->
            m.content = IF \A k \in 1..Len(span) : span[k] < 128 THEN span
                        ELSE ascii_projection(span)
      [] m.encoding = "Utf8" -> from_utf8(span).ok /\ m.content = from_utf8(span).chars
      [] m.encoding = "Utf16Le" -> m.content = from_utf16(UnitsOf(span, TRUE)).chars
      [] m.encoding = "Utf16Be" -> m.content = from_utf16(UnitsOf(span, FALSE)).chars
      [] m.encoding = "Gbk" ->
            m.content = gbk_decode(gbk_run(span, 0, << >>, 0, MAX_STRING_LENGTH).gbk_bytes)

\* m is a match whose run starts at zero-based position start of data
MatchAt(data, start, m) ==
    /\ start >= 0
    /\ m.byte_length >= 1
    /\ start + m.byte_length <= Len(data)
    /\ StartsRun(data, start, m.encoding)
    /\ Reads(Slice(data, start, start + m.byte_length), m)

(***************************************************************************)
(* C1: every match of every chunk task carries base_offset + the index of   *)
(* the first byte of its run in the chunk, and with base_offset = the       *)
(* chunk's start that is the absolute position of the run in the input:     *)
(* the run of the match's encoding starts at mmap[offset] and its content   *)
(* and byte_length are read from there, also when the match lies in the     *)
(* chunk's overlap tail.                                                    *)
(***************************************************************************)
C1_OffsetsAbsolute ==
    \A k \in DOMAIN chunk_results :
        \A m \in Range(chunk_results[k]) :
            /\ m.offset >= chunks[k].base_offset
            /\ m.offset < chunks[k].end
            /\ MatchAt(Slice(mmap, chunks[k].start, chunks[k].end),
                       m.offset - chunks[k].base_offset, m)
            /\ MatchAt(mmap, m.offset, m)

\* a chunk after the first has a match, and some chunk has one in its overlap tail
C1_Witness ==
    /\ pc = "merge"
    /\ \E k \in DOMAIN chunks : k >= 2 /\ chunk_results[k] # << >>
    /\ \E k \in DOMAIN chunks :
          /\ k < Len(chunks)
          /\ \E m \in Range(chunk_results[k]) : m.offset >= chunks[k + 1].start

(***************************************************************************)
(* C2: sort and dedup remove only exact-offset duplicates: the offsets      *)
(* present after the merge are the offsets present before it.               *)
(***************************************************************************)
C2_DedupKeepsOffsets ==
    pc = "done" => Offsets(unique_results) = Offsets(results)

\* a duplicate was removed and two survivors at distinct offsets share their content
C2_Witness ==
    /\ pc = "done"
    /\ Len(unique_results) < Len(results)
    /\ \E i, j \in 1..Len(unique_results) :
          /\ i # j
          /\ unique_results[i].content = unique_results[j].content
          /\ unique_results[i].offset # unique_results[j].offset

(***************************************************************************)
(* C3: the merged sequence is strictly ascending by offset, so a string     *)
(* that two adjacent chunks both report appears once.                       *)
(***************************************************************************)
C3_StrictlyAscending ==
    pc = "done" =>
        \A i, j \in 1..Len(unique_results) :
            i < j => unique_results[i].offset < unique_results[j].offset

\* two adjacent chunks report a match at the same offset; it survives once
C3_Witness ==
    /\ pc = "done"
    /\ Len(unique_results) >= 2
    /\ \E k \in DOMAIN chunks :
          /\ k < Len(chunks)
          /\ \E m \in Range(chunk_results[k]) :
                /\ m \in Range(chunk_results[k + 1])
                /\ Cardinality({i \in 1..Len(unique_results) :
                                   unique_results[i].offset = m.offset}) = 1

WholeScan == extract_strings(unwrap(extractor).config, mmap, 0)

(***************************************************************************)
(* C4: every run that a scan of the whole input reports across a planned    *)
(* chunk boundary b (offset < b < offset + byte_length) is reported with    *)
(* the same offset and byte_length by the scan of some chunk.               *)
(***************************************************************************)
C4_BoundaryRunsWhole ==
    pc = "merge" =>
        \A k \in 2..Len(chunks) :
            \A m \in Range(WholeScan) :
                (m.offset < chunks[k].start /\ chunks[k].start < m.offset + m.byte_length)
                => \E j \in DOMAIN chunk_results :
                      \E c \in Range(chunk_results[j]) :
                          c.offset = m.offset /\ c.byte_length = m.byte_length

\* the zero-based index in the buffer where the run of a returned match starts
LocalStart(m) == m.offset - base_offset

QualifyingUnits(m) ==
    CASE m.encoding \in {"Ascii", "Utf8"} -> m.byte_length
      [] m.encoding \in {"Utf16Le", "Utf16Be"} -> m.byte_length \div 2
      [] m.encoding = "Gbk" ->
            Len(gbk_run(mmap, LocalStart(m), << >>, 0, MAX_STRING_LENGTH).gbk_bytes)

(***************************************************************************)
(* C5: no emitted match is shorter than min_len in its own unit: bytes for  *)
(* ASCII/UTF-8, code units for UTF-16LE/BE, accumulated bytes for GBK; so   *)
(* every match has byte_length >= min_len.                                  *)
(***************************************************************************)
C5_MinLen ==
    pc = "returned" =>
        \A m \in Range(results) :
            /\ QualifyingUnits(m) >= cli.min_len
            /\ m.byte_length >= cli.min_len

\* with min_len 2 a match is returned and a shorter run is dropped
C5_Witness ==
    /\ pc = "returned"
    /\ cli.min_len = 2
    /\ results # << >>
    /\ Len(results) < Len(extract_strings([unwrap(extractor).config EXCEPT !.min_len = 0],
                                          mmap, base_offset))

Utf16Run(m) ==
    IF m.encoding = "Utf16Le" THEN utf16le_run(mmap, LocalStart(m), << >>)
    ELSE utf16be_run(mmap, LocalStart(m), << >>)

HelloUtf16Le == << 72, 0, 101, 0, 108, 0, 108, 0, 111, 0, 0, 0 >>

(***************************************************************************)
(* C6: a UTF-16LE or UTF-16BE match has byte_length = 2 x the code units    *)
(* accumulated for its run = the bytes between the run's start and the      *)
(* index where the scanner stopped; the decoded text has one character per  *)
(* code unit.  UTF-16LE "Hello" with a two-byte NUL gives byte_length 10.   *)
(***************************************************************************)
C6_Utf16ByteLength ==
    pc = "returned" =>
        /\ \A m \in Range(results) :
              m.encoding \in {"Utf16Le", "Utf16Be"} =>
                  /\ m.byte_length = 2 * Len(Utf16Run(m).utf16_bytes)
                  /\ m.byte_length = Utf16Run(m).i - LocalStart(m)
                  /\ m.byte_length = 2 * Len(m.content)
        /\ mmap = HelloUtf16Le =>
              \E k \in 1..Len(results) :
                  /\ results[k].encoding = "Utf16Le"
                  /\ results[k].content = << 72, 101, 108, 108, 111 >>
                  /\ results[k].byte_length = 10
                  /\ \A j \in 1..Len(results) : results[j].encoding = "Utf16Le" => j = k

\* a UTF-16 match of two code units whose run ends in one outside the ASCII range
C6_Witness ==
    /\ pc = "returned"
    /\ \E m \in Range(results) :
          /\ m.encoding \in {"Utf16Le", "Utf16Be"}
          /\ m.byte_length >= 4
          /\ m.content[Len(m.content)] > 255

Unfiltered(config) == [config EXCEPT !.search_pattern = None, !.regex_pattern = None]

Passes(config, m) ==
    \/ is_some(config.regex_pattern) /\ RegexIsMatch(unwrap(config.regex_pattern), m.content)
    \/ /\ ~is_some(config.regex_pattern)
       /\ is_some(config.search_pattern)
       /\ Contains(m.content, unwrap(config.search_pattern))
    \/ ~is_some(config.regex_pattern) /\ ~is_some(config.search_pattern)

(***************************************************************************)
(* C7: a qualifying candidate is emitted iff the regex is configured and    *)
(* matches the content, or no regex but a plain pattern is configured and   *)
(* the content contains it, or no filter is configured; the regex wins over *)
(* the plain pattern and all four scanners apply the same predicate.        *)
(***************************************************************************)
C7_MatchFilter ==
    pc = "returned" =>
        LET config == unwrap(extractor).config
        IN  /\ results = SelectSeq(extract_strings(Unfiltered(config), mmap, base_offset),
                                   LAMBDA m : Passes(config, m))
            /\ (cli.search = Some(<< 65 >>) /\ ~cli.regex) =>
                  \A m \in Range(results) : Contains(m.content, << 65 >>)

\* a regex is configured; it keeps a candidate without the literal pattern text
\* and drops another
C7_Witness ==
    /\ pc = "returned"
    /\ is_some(unwrap(extractor).config.regex_pattern)
    /\ \E m \in Range(results) : ~Contains(m.content, unwrap(cli.search))
    /\ Len(results) < Len(extract_strings(Unfiltered(unwrap(extractor).config), mmap,
                                          base_offset))

(***************************************************************************)
(* C8: StringExtractor::new fails exactly when regex mode is requested with *)
(* a pattern that does not compile, and then yields no extractor;           *)
(* extract_strings returns matches and has no error outcome.                *)
(***************************************************************************)
C8_ErrorsAtConstruction ==
    /\ extractor # None =>
          /\ ~unwrap(extractor).ok <=>
                (cli.regex /\ is_some(cli.search) /\ ~RegexCompiles(unwrap(cli.search)))
          /\ ~unwrap(extractor).ok =>
                (pc = "error" /\ "config" \notin DOMAIN unwrap(extractor))
    /\ pc \in {"ready", "returned"} => unwrap(extractor).ok
    /\ pc = "returned" =>
          \A m \in Range(results) :
              /\ m.encoding \in EncodingType
              /\ DOMAIN m = {"offset", "content", "encoding", "byte_length",
                             "context_before", "context_after"}

\* a pattern that does not compile is accepted as a plain pattern and scanned with
C8_Witness ==
    /\ pc = "returned"
    /\ ~cli.regex
    /\ is_some(cli.search)
    /\ ~RegexCompiles(unwrap(cli.search))

(***************************************************************************)
(* C9: the number of chunks.  T is the requested thread count, L the input  *)
(* length, M = min_chunk_size.                                              *)
(***************************************************************************)
RequestedThreads == get_threads(cli, num_cpus)

\* C9 as stated: 1 chunk when L < M, else min(T, floor(L / M)) chunks
C9_ChunkCountAsStated ==
    pc = "scan" =>
        Len(chunks) = IF mmap_len < min_chunk_size THEN 1
                      ELSE Min(RequestedThreads, mmap_len \div min_chunk_size)

\* the thread count after the limit for inputs above 100 MiB
LimitedThreads ==
    IF mmap_len > large_file_size THEN Min(RequestedThreads, 8) ELSE RequestedThreads

PlannedCount ==
    IF mmap_len < min_chunk_size THEN 1
    ELSE Min(LimitedThreads, mmap_len \div min_chunk_size)

\* C9, amended: N = 1 when L < M, else min(T', floor(L / M)) with T' = min(T, 8) when
\* L > 100 MiB and T' = T otherwise; N chunks are planned when N >= 1, and when
\* N = 0 the division by N panics and no chunk is planned
C9_ChunkCount ==
    pc # "plan" =>
        /\ Len(chunks) = PlannedCount
        /\ pc = "panic" <=> PlannedCount = 0
        /\ pc = "scan" <=> PlannedCount >= 1

\* more than 8 threads are requested for an input above 100 MiB with room for more
C9_Witness ==
    /\ pc = "scan"
    /\ RequestedThreads > 8
    /\ mmap_len > large_file_size
    /\ mmap_len \div min_chunk_size > 8
    /\ Len(chunks) = 8

(***************************************************************************)
(* C10: with N chunks and c = L when N = 1, else floor(L / N), chunk i has  *)
(* start = i * c and base_offset = start; its end is                        *)
(* min((i + 1) * c + 4096, L) when i < N - 1 and L for the last chunk; no   *)
(* end exceeds L.                                                           *)
(***************************************************************************)
C10_ChunkGeometry ==
    pc = "scan" =>
        LET N == Len(chunks)
            c == IF N = 1 THEN mmap_len ELSE mmap_len \div N
        IN  \A i \in 0..(N - 1) :
                /\ chunks[i + 1].start = i * c
                /\ chunks[i + 1].base_offset = chunks[i + 1].start
                /\ chunks[i + 1].end =
                      IF i < N - 1 THEN Min((i + 1) * c + 4096, mmap_len) ELSE mmap_len
                /\ chunks[i + 1].end <= mmap_len

\* several chunks, the input not a multiple of their count: the non-last chunks
\* are widened and the last one takes the remainder
C10_Witness ==
    /\ pc = "scan"
    /\ Len(chunks) >= 3
    /\ mmap_len % Len(chunks) # 0
    /\ chunks[1].end = chunks[2].start + 4096
    /\ chunks[Len(chunks)].end = mmap_len

(***************************************************************************)
(* C11                                                                      *)
(***************************************************************************)
\* what chunk k's task returns, whenever it runs
TaskResult(k) ==
    extract_strings(unwrap(extractor).config,
                    Slice(mmap, chunks[k].start, chunks[k].end), chunks[k].base_offset)

\* the merged sequence of a run that scans the chunks one after the other
InOrderMerge ==
    dedup_by_key(sort_by_key(flatten([k \in DOMAIN chunks |-> TaskResult(k)], 1)))

OutOfOrder == \E j, k \in DOMAIN finished : j < k /\ finished[j] > finished[k]

\* C11: whatever the order in which the chunk tasks ran and completed, every task
\* returned what a scan of its chunk returns, the collected sequence is the chunks'
\* results in chunk order, and the merged sequence is the one of an in-order run.
C11_Deterministic ==
    /\ \A k \in DOMAIN task : task[k] = "done" => chunk_results[k] = TaskResult(k)
    /\ pc \in {"merge", "done"} =>
          results = flatten([k \in DOMAIN chunks |-> TaskResult(k)], 1)
    /\ pc = "done" => unique_results = InOrderMerge

\* tasks completed out of chunk order, and two of them reported the same offset with
\* different lengths, so that the order of collection decides the survivor
C11_Witness ==
    /\ pc = "done"
    /\ OutOfOrder
    /\ \E j, k \in DOMAIN chunks :
         /\ j < k
         /\ \E x \in Range(chunk_results[j]), y \in Range(chunk_results[k]) :
               x.offset = y.offset /\ x.byte_length # y.byte_length

(***************************************************************************)
(* C12                                                                      *)
(***************************************************************************)
ScenarioAReturned ==
    /\ pc = "returned"
    /\ mmap = HelloWorldTest
    /\ cli = Cli(ScenarioA, None)

\* C12 as stated: Scenario A yields exactly one match, at offset 0, with the whole text
\* as content, tagged ASCII, and byte_length = 29.
C12_ScenarioAAsStated ==
    ScenarioAReturned =>
        /\ Len(results) = 1
        /\ results[1].offset = 0
        /\ results[1].content = HelloWorldTest
        /\ results[1].encoding = "Ascii"
        /\ results[1].byte_length = 29

\* C12, amended: Scenario A yields exactly one match, at offset 0, with the whole text
\* as content, tagged ASCII, and byte_length = 28, the length of the text.
C12_ScenarioA ==
    ScenarioAReturned =>
        /\ Len(results) = 1
        /\ results[1].offset = 0
        /\ results[1].content = HelloWorldTest
        /\ results[1].encoding = "Ascii"
        /\ results[1].byte_length = 28
        /\ results[1].byte_length = Len(mmap)

C12_Witness == ScenarioAReturned /\ results # << >>

(***************************************************************************)
(* C13                                                                      *)
(***************************************************************************)
\* chunk k, in its widened tail, and chunk k + 1 both report a match of one encoding
\* at offset o
BothReport(k, o) ==
    /\ o >= chunks[k + 1].start
    /\ \E x \in Range(chunk_results[k]), y \in Range(chunk_results[k + 1]) :
          x.offset = o /\ y.offset = o /\ x.encoding = y.encoding

\* C13: when chunk k, in its widened tail, and chunk k + 1 both report a match at one
\* absolute offset, the match that survives the merge at that offset has a byte_length
\* and content that the scan of the whole input reports at that offset.
C13_SurvivorIsWhole ==
    pc = "done" =>
        \A k \in 1..(Len(chunks) - 1) :
            \A u \in Range(unique_results) :
                BothReport(k, u.offset)
                => \E w \in Range(WholeScan) :
                      /\ w.offset = u.offset
                      /\ w.byte_length = u.byte_length
                      /\ w.content = u.content

(***************************************************************************)
(* C14                                                                      *)
(***************************************************************************)
\* the bytes of the buffer that a returned match spans
SpanOf(m) == Slice(mmap, LocalStart(m), LocalStart(m) + m.byte_length)

\* C14: of the matches of the ASCII/UTF-8 scanner, one whose span holds only printable
\* ASCII and tab bytes is tagged ASCII, and one tagged UTF-8 has a byte with the high
\* bit set in its span, which validates as UTF-8.
C14_EncodingTag ==
    pc = "returned" =>
        \A m \in Range(results) :
            m.encoding \in {"Ascii", "Utf8"} =>
                /\ (\A b \in Range(SpanOf(m)) : is_printable_ascii(b) \/ b = 9)
                      => m.encoding = "Ascii"
                /\ m.encoding = "Utf8"
                      => /\ \E b \in Range(SpanOf(m)) : b >= 128
                         /\ from_utf8(SpanOf(m)).ok

(***************************************************************************)
(* C15                                                                      *)
(***************************************************************************)
\* C15: no match of the ASCII/UTF-8 scanner has a NUL byte or a control byte (below
\* 0x20, other than tab) inside [offset, offset + byte_length).
C15_NoControlInSpan ==
    pc = "returned" =>
        \A m \in Range(results) :
            m.encoding \in {"Ascii", "Utf8"} =>
                \A b \in Range(SpanOf(m)) : ~(b = 0 \/ (b < 32 /\ b # 9))

(***************************************************************************)
(* C16                                                                      *)
(***************************************************************************)
\* the code units of the span of a UTF-16 match
SpanUnits(m) == UnitsOf(SpanOf(m), m.encoding = "Utf16Le")

\* high byte 0x00 and low byte printable ASCII
PlainUnit(u) == u < 256 /\ is_printable_ascii(u)

\* zero-based index of the first byte after the span of m
SpanEnd(m) == LocalStart(m) + m.byte_length

\* C16 as stated: in a UTF-16LE or UTF-16BE run a code unit that is not (high byte
\* 0x00, low byte printable ASCII) can only be the last code unit of the run.
C16_OtherUnitIsLastAsStated ==
    pc = "returned" =>
        \A m \in Range(results) :
            m.encoding \in {"Utf16Le", "Utf16Be"} =>
                \A k \in 1..(Len(SpanUnits(m)) - 1) : PlainUnit(SpanUnits(m)[k])

\* C16, amended: in a UTF-16LE or UTF-16BE run a code unit with a non-zero high byte
\* can only be the last code unit, every code unit before the last has high byte 0x00
\* and is not NUL, and the run ends only after a code unit with a non-zero high byte,
\* at a double NUL, or where fewer than two bytes are left.
C16_HighUnitIsLast ==
    pc = "returned" =>
        \A m \in Range(results) :
            m.encoding \in {"Utf16Le", "Utf16Be"} =>
                LET units == SpanUnits(m)
                    e == SpanEnd(m)
                IN  /\ units = Utf16Run(m).utf16_bytes
                    /\ \A k \in 1..(Len(units) - 1) : units[k] < 256 /\ units[k] # 0
                    /\ \/ units[Len(units)] >= 256
                       \/ ~(e + 1 < Len(mmap))
                       \/ mmap[e + 1] = 0 /\ mmap[e + 2] = 0

\* a run that goes on after a code unit with high byte 0x00 and a low byte that is
\* not printable
C16_Witness ==
    /\ pc = "returned"
    /\ \E m \in Range(results) :
          /\ m.encoding \in {"Utf16Le", "Utf16Be"}
          /\ \E k \in 1..(Len(SpanUnits(m)) - 1) : ~PlainUnit(SpanUnits(m)[k])

\* a run that a code unit with a non-zero high byte ends before the end of the buffer
C16_WitnessHighUnit ==
    /\ pc = "returned"
    /\ \E m \in Range(results) :
          /\ m.encoding \in {"Utf16Le", "Utf16Be"}
          /\ SpanUnits(m)[Len(SpanUnits(m))] >= 256
          /\ SpanEnd(m) + 1 < Len(mmap)
          /\ ~(mmap[SpanEnd(m) + 1] = 0 /\ mmap[SpanEnd(m) + 2] = 0)

(***************************************************************************)
(* C17                                                                      *)
(***************************************************************************)
\* C17: in every state of the GBK scanner the bytes accumulated for the current run
\* are at most MAX_STRING_LENGTH.
C17_RunCapped ==
    gbk.pc \in {"inner", "emit"} => Len(gbk.gbk_bytes) <= gbk.max_string_length

(***************************************************************************)
(* C18                                                                      *)
(***************************************************************************)
\* C18: for every input length and every thread count, 0 included, planning completes
\* without a division by zero and plans at least one chunk.
C18_PlanningCompletes ==
    /\ pc # "panic"
    /\ pc = "scan" => Len(chunks) >= 1

(***************************************************************************)
(* C19                                                                      *)
(***************************************************************************)
\* the byte at zero-based position j is neither a terminator, nor printable ASCII, nor
\* the first byte of a double-byte character
GbkInvalidAt(j) ==
    /\ j < Len(mmap)
    /\ LET byte == mmap[j + 1]
       IN  /\ ~(byte = 0 \/ (byte < 32 /\ byte # 9))
           /\ ~(byte >= 32 /\ byte <= 126)
           /\ ~(/\ byte >= 129 /\ byte <= 254 /\ j + 1 < Len(mmap)
                /\ gbk_second_byte(mmap[j + 2]))

\* the inner loop was left at an invalid byte, not at the end of the data, the length
\* limit or a terminator
LeftForInvalidity ==
    /\ gbk.pc = "emit"
    /\ Len(gbk.gbk_bytes) < gbk.max_string_length
    /\ GbkInvalidAt(gbk.i)

\* C19: a GBK run tolerates up to 3 consecutive invalid bytes: when the inner loop is
\* left at an invalid byte, the run has met more than MAX_INVALID_BYTES = 3 consecutive
\* invalid bytes.
C19_ToleratesThree ==
    LeftForInvalidity => gbk.consecutive_invalid > MAX_INVALID_BYTES

(***************************************************************************)
(* C20                                                                      *)
(***************************************************************************)
Built == extractor # None /\ unwrap(extractor).ok

\* C20 as stated: an ExtractionConfig built by new never has both search_pattern and
\* regex_pattern present.
C20_OneFilterAsStated ==
    Built =>
        ~(/\ is_some(unwrap(extractor).config.search_pattern)
          /\ is_some(unwrap(extractor).config.regex_pattern))

\* C20, amended: an ExtractionConfig built by new keeps the search pattern it was given,
\* and has a regex_pattern exactly when use_regex is set and a pattern was given; the
\* regex is then compiled from that pattern, and both fields are present.
C20_FilterFields ==
    Built =>
        LET config == unwrap(extractor).config
        IN  /\ config.search_pattern = cli.search
            /\ is_some(config.regex_pattern) <=> (cli.regex /\ is_some(cli.search))
            /\ is_some(config.regex_pattern) =>
                  /\ is_some(config.search_pattern)
                  /\ unwrap(config.regex_pattern) = unwrap(config.search_pattern)

\* an extractor built in regex mode
C20_Witness ==
    /\ Built
    /\ is_some(unwrap(extractor).config.search_pattern)
    /\ is_some(unwrap(extractor).config.regex_pattern)

RECURSIVE AsciiRunStarts(_)
\* the zero-based positions from i on at which the outer loop of the ASCII/UTF-8
\* scanner starts a run
AsciiRunStarts(i) ==
    IF ~(i < Len(mmap)) THEN {}
    ELSE IF is_printable_ascii(mmap[i + 1])
    THEN {i} \cup AsciiRunStarts(ascii_utf8_run(mmap, i, FALSE).i)
    ELSE AsciiRunStarts(i + 1)

(***************************************************************************)
(* C21                                                                      *)
(***************************************************************************)
\* the ASCII/UTF-8 scanner runs, keeps every candidate and needs one byte only
AsciiScanOpen ==
    /\ pc = "returned"
    /\ \E e \in Range(cli.encodings) : e \in {"Ascii", "Utf8"}
    /\ cli.search = None
    /\ cli.min_len <= 1

\* zero-based position j holds a tab that follows the start of the buffer or a NUL,
\* lies in no run started before it, and directly precedes a printable ASCII byte
TabBeforeText(j) ==
    /\ j + 1 < Len(mmap)
    /\ mmap[j + 1] = 9
    /\ is_printable_ascii(mmap[j + 2])
    /\ j > 0 => mmap[j] = 0
    /\ \A start \in AsciiRunStarts(0) :
          ~(start < j /\ j < ascii_utf8_run(mmap, start, FALSE).i)

AsciiMatchAt(j) ==
    \E m \in Range(results) : m.encoding \in {"Ascii", "Utf8"} /\ LocalStart(m) = j

\* C21 as stated: a tab that directly precedes printable text is the first byte of the
\* emitted ASCII/UTF-8 match.
C21_TabStartsRunAsStated ==
    AsciiScanOpen => \A j \in 0..(Len(mmap) - 1) : TabBeforeText(j) => AsciiMatchAt(j)

\* C21, amended: an ASCII/UTF-8 match starts at a printable ASCII byte, never at a tab;
\* a tab that directly precedes printable text is left out and the match starts at the
\* byte after it; a tab inside a run is kept in the span.
C21_PrintableStartsRun ==
    pc = "returned" =>
        /\ \A m \in Range(results) :
              m.encoding \in {"Ascii", "Utf8"} =>
                  /\ is_printable_ascii(mmap[LocalStart(m) + 1])
                  /\ \A k \in (LocalStart(m) + 1)..(LocalStart(m) + m.byte_length - 1) :
                        (k < Len(mmap) /\ ~(\E b \in Range(SpanOf(m)) : b >= 128))
                        => (mmap[k + 1] = 9 \/ is_printable_ascii(mmap[k + 1]))
                  /\ SpanEnd(m) < Len(mmap) =>
                        ~(mmap[SpanEnd(m) + 1] = 9 \/ is_printable_ascii(mmap[SpanEnd(m) + 1]))
        /\ AsciiScanOpen =>
              \A j \in 0..(Len(mmap) - 1) :
                  TabBeforeText(j) => ~AsciiMatchAt(j) /\ AsciiMatchAt(j + 1)

\* a tab before text, and a match that has a tab inside
C21_Witness ==
    /\ AsciiScanOpen
    /\ \E j \in 0..(Len(mmap) - 1) : TabBeforeText(j) /\ AsciiMatchAt(j + 1)
    /\ \E m \in Range(results) :
          /\ m.encoding = "Ascii"
          /\ \E k \in 2..Len(m.content) : m.content[k] = 9

(***************************************************************************)
(* C22                                                                      *)
(***************************************************************************)
Utf16RunAt(encoding, start) ==
    IF encoding = "Utf16Le" THEN utf16le_run(mmap, start, << >>)
    ELSE utf16be_run(mmap, start, << >>)

RECURSIVE Utf16RunStarts(_, _)
\* the zero-based positions from i on at which the outer loop of a UTF-16 scanner
\* starts a run
Utf16RunStarts(encoding, i) ==
    IF ~(i + 1 < Len(mmap)) THEN {}
    ELSE IF StartsRun(mmap, i, encoding)
    THEN {i} \cup Utf16RunStarts(encoding, Utf16RunAt(encoding, i).i)
    ELSE Utf16RunStarts(encoding, i + 1)

\* the run started at position start has min_len code units and does not decode
Utf16RunFails(encoding, start) ==
    /\ Len(Utf16RunAt(encoding, start).utf16_bytes) >= cli.min_len
    /\ ~from_utf16(Utf16RunAt(encoding, start).utf16_bytes).ok

MatchesFrom(encoding, i) ==
    SelectSeq(results, LAMBDA m : m.encoding = encoding /\ LocalStart(m) >= i)

\* C22: when the code units of a UTF-16LE/BE run of at least min_len units do not
\* decode, the call still returns, no match of that scanner starts inside the bytes
\* of the run, and its matches after the run are those of a scan resumed where the run
\* stopped.
C22_Utf16DecodeFailure ==
    pc = "returned" =>
        \A encoding \in {"Utf16Le", "Utf16Be"} \cap Range(cli.encodings) :
            \A start \in Utf16RunStarts(encoding, 0) :
                Utf16RunFails(encoding, start) =>
                    LET e == Utf16RunAt(encoding, start).i
                    IN  /\ \A m \in Range(results) :
                              m.encoding = encoding =>
                                  ~(start <= LocalStart(m) /\ LocalStart(m) < e)
                        /\ MatchesFrom(encoding, start) =
                              (IF encoding = "Utf16Le"
                               THEN utf16le_scan(unwrap(extractor).config, mmap,
                                                 base_offset, e, << >>)
                               ELSE utf16be_scan(unwrap(extractor).config, mmap,
                                                 base_offset, e, << >>))

\* a run that ends in an unpaired surrogate, with a match of the same scanner after it
C22_Witness ==
    /\ pc = "returned"
    /\ \E encoding \in {"Utf16Le", "Utf16Be"} \cap Range(cli.encodings) :
          \E start \in Utf16RunStarts(encoding, 0) :
              /\ Utf16RunFails(encoding, start)
              /\ MatchesFrom(encoding, Utf16RunAt(encoding, start).i) # << >>

(***************************************************************************)
(* C23                                                                      *)
(***************************************************************************)
AsciiScannerOn == \E e \in Range(cli.encodings) : e \in {"Ascii", "Utf8"}

\* the run started at position start qualifies, saw a high-bit byte and is not UTF-8
RecoveredRun(start) ==
    LET run == ascii_utf8_run(mmap, start, FALSE)
    IN  /\ run.i - start >= cli.min_len
        /\ run.has_non_ascii
        /\ ~from_utf8(Slice(mmap, start, run.i)).ok

\* m is the ASCII rendering of its span: byte for byte, '?' for every byte that is
\* neither printable ASCII nor tab
Projected(m) ==
    /\ m.encoding = "Ascii"
    /\ Len(m.content) = m.byte_length
    /\ \A k \in 1..m.byte_length :
          m.content[k] = IF is_printable_ascii(SpanOf(m)[k]) \/ SpanOf(m)[k] = 9
                         THEN SpanOf(m)[k] ELSE 63

\* C23: a qualifying ASCII/UTF-8 run in which a high-bit byte was seen and which is
\* not valid UTF-8 is emitted (when the filter, if any, passes it), tagged ASCII, with
\* one character per byte: printable ASCII and tab unchanged, '?' for the others.
C23_DecodeRecovery ==
    (pc = "returned" /\ AsciiScannerOn) =>
        \A start \in AsciiRunStarts(0) :
            RecoveredRun(start) =>
                LET e == ascii_utf8_run(mmap, start, FALSE).i
                IN  /\ \A m \in Range(results) :
                          (m.encoding \in {"Ascii", "Utf8"} /\ LocalStart(m) = start)
                          => (m.byte_length = e - start /\ Projected(m))
                    /\ cli.search = None =>
                          \E m \in Range(results) :
                              /\ m.encoding = "Ascii"
                              /\ LocalStart(m) = start
                              /\ m.byte_length = e - start

\* a recovered run with a tab and a replaced byte
C23_Witness ==
    /\ pc = "returned"
    /\ AsciiScannerOn
    /\ \E start \in AsciiRunStarts(0) :
          /\ RecoveredRun(start)
          /\ \E m \in Range(results) :
                /\ m.encoding = "Ascii"
                /\ LocalStart(m) = start
                /\ \E k \in 1..Len(m.content) : m.content[k] = 9
                /\ \E k \in 1..Len(m.content) : m.content[k] = 63 /\ SpanOf(m)[k] # 63

(***************************************************************************)
(* C24                                                                      *)
(***************************************************************************)
\* the scanner that produces the matches of an encoding
ScannerOf(m) == IF m.encoding \in {"Ascii", "Utf8"} THEN "AsciiUtf8" ELSE m.encoding

\* every match reported by some chunk task so far
Reported == UNION {Range(chunk_results[k]) : k \in DOMAIN chunk_results}

\* C24: for min_len >= 2 no two matches of different scanners start at one absolute
\* offset, whichever chunks reported them, so the match that the merge keeps at an
\* offset and the matches it drops there are of one scanner.
C24_ScannersApart ==
    cli.min_len >= 2 =>
        /\ \A x, y \in Reported : x.offset = y.offset => ScannerOf(x) = ScannerOf(y)
        /\ pc = "done" =>
              \A u \in Range(unique_results) :
                  \A r \in Range(results) :
                      r.offset = u.offset => ScannerOf(r) = ScannerOf(u)

\* min_len 2: matches of two scanners, and one offset reported by two chunks
C24_Witness ==
    /\ pc = "done"
    /\ cli.min_len >= 2
    /\ \E x, y \in Reported : ScannerOf(x) # ScannerOf(y)
    /\ \E j, k \in DOMAIN chunk_results :
          /\ j # k
          /\ \E x \in Range(chunk_results[j]), y \in Range(chunk_results[k]) :
                x.offset = y.offset

\* min_len 1: an ASCII match and a UTF-16LE match at one offset
C24_WitnessMinLenOne ==
    /\ cli.min_len <= 1
    /\ \E x, y \in Reported :
          x.offset = y.offset /\ x.encoding = "Ascii" /\ y.encoding = "Utf16Le"

(***************************************************************************)
(* C25                                                                      *)
(***************************************************************************)
Scanners == {"Ascii", "Utf16Le", "Utf16Be", "Gbk"}

\* the index at which the run that a scanner starts at position start stops
RunEnd(scanner, start) ==
    CASE scanner = "Ascii" -> ascii_utf8_run(mmap, start, FALSE).i
      [] scanner = "Utf16Le" -> utf16le_run(mmap, start, << >>).i
      [] scanner = "Utf16Be" -> utf16be_run(mmap, start, << >>).i
      [] scanner = "Gbk" -> gbk_run(mmap, start, << >>, 0, MAX_STRING_LENGTH).i

\* C25: wherever in a buffer a scanner starts a run, the run consumes at least one byte
\* (one code unit for UTF-16) and stops inside the buffer, so that every iteration of
\* an outer loop moves the scan index forward.
C25_ScannersAdvance ==
    /\ \A scanner \in Scanners :
          \A start \in 0..(Len(mmap) - 1) :
              StartsRun(mmap, start, scanner) =>
                  /\ RunEnd(scanner, start) >=
                        start + (IF scanner \in {"Utf16Le", "Utf16Be"} THEN 2 ELSE 1)
                  /\ RunEnd(scanner, start) <= Len(mmap)

\* the call returned on a buffer in which each scanner started a run, the GBK one at a
\* lead byte that is not followed by a second byte
C25_Witness ==
    /\ pc = "returned"
    /\ \A scanner \in Scanners :
          \E start \in 0..(Len(mmap) - 1) : StartsRun(mmap, start, scanner)
    /\ \E start \in 0..(Len(mmap) - 1) :
          StartsRun(mmap, start, "Gbk") /\ RunEnd("Gbk", start) = start + 1

(***************************************************************************)
(* C26                                                                      *)
(***************************************************************************)
GbkRunAt(start) == gbk_run(mmap, start, << >>, 0, MAX_STRING_LENGTH)

RECURSIVE GbkRunStarts(_)
\* the zero-based positions from i on at which the outer loop of the GBK scanner
\* starts a run
GbkRunStarts(i) ==
    IF ~(i < Len(mmap)) THEN {}
    ELSE IF StartsRun(mmap, i, "Gbk") THEN {i} \cup GbkRunStarts(GbkRunAt(i).i)
    ELSE GbkRunStarts(i + 1)

EnoughBytes(start) == Len(GbkRunAt(start).gbk_bytes) >= cli.min_len

TextLeft(start) ==
    \E k \in 1..Len(gbk_decode(GbkRunAt(start).gbk_bytes)) :
        ~is_whitespace(gbk_decode(GbkRunAt(start).gbk_bytes)[k])

EnoughChars(start) == Len(gbk_decode(GbkRunAt(start).gbk_bytes)) >= cli.min_len \div 2

GbkMatchesAt(start) ==
    SelectSeq(results, LAMBDA m : m.encoding = "Gbk" /\ LocalStart(m) = start)

\* C26: with no filter, a GBK run yields one match when its accumulated bytes are at
\* least min_len, its decoding has a character that is not whitespace and at least
\* min_len / 2 (rounded down) characters, and no match otherwise; every GBK match
\* comes from such a run; the 8 bytes of the GBK test with min_len 4 yield one match
\* of byte_length 8.
C26_GbkEmitted ==
    (pc = "returned" /\ "Gbk" \in Range(cli.encodings)) =>
        /\ cli.search = None =>
              \A start \in GbkRunStarts(0) :
                  Len(GbkMatchesAt(start)) =
                      IF EnoughBytes(start) /\ TextLeft(start) /\ EnoughChars(start)
                      THEN 1 ELSE 0
        /\ \A m \in Range(results) :
              m.encoding = "Gbk" =>
                  /\ LocalStart(m) \in GbkRunStarts(0)
                  /\ EnoughBytes(LocalStart(m))
                  /\ TextLeft(LocalStart(m))
                  /\ EnoughChars(LocalStart(m))
                  /\ m.byte_length = GbkRunAt(LocalStart(m)).i - LocalStart(m)
        /\ (mmap = GbkTest /\ cli.min_len = 4) =>
              /\ Len(results) = 1
              /\ results[1].encoding = "Gbk"
              /\ results[1].offset = 0
              /\ results[1].byte_length = 8
              /\ Len(results[1].content) = 4

\* each of the three tests has rejected a run that passes the other two
RejectedOnlyBy(start, test) ==
    /\ start \in GbkRunStarts(0)
    /\ GbkMatchesAt(start) = << >>
    /\ EnoughBytes(start) <=> test # "bytes"
    /\ TextLeft(start) <=> test # "text"
    /\ EnoughChars(start) <=> test # "chars"

\* a run dropped for its decoded character count alone
C26_Witness ==
    /\ pc = "returned"
    /\ "Gbk" \in Range(cli.encodings)
    /\ \E start \in 0..(Len(mmap) - 1) : RejectedOnlyBy(start, "chars")

\* a run dropped for its whitespace alone
C26_WitnessText ==
    /\ pc = "returned"
    /\ "Gbk" \in Range(cli.encodings)
    /\ \E start \in 0..(Len(mmap) - 1) : RejectedOnlyBy(start, "text")

\* a run dropped for its accumulated bytes alone
C26_WitnessBytes ==
    /\ pc = "returned"
    /\ "Gbk" \in Range(cli.encodings)
    /\ \E start \in 0..(Len(mmap) - 1) : RejectedOnlyBy(start, "bytes")

(***************************************************************************)
(* C27                                                                      *)
(***************************************************************************)
\* the number of bytes captured before a match
BeforeCount(m) == Min(unwrap(cli.context_bytes), LocalStart(m))

\* the number of bytes captured after a match
AfterCount(m) == Min(unwrap(cli.context_bytes), Len(mmap) - SpanEnd(m))

\* C27: with a context size C, a match over [s, e) of a buffer of n bytes carries the
\* min(C, s) bytes that end at s and the min(C, n - e) bytes that start at e, a side
\* being absent exactly when its count is 0; with no size both sides are absent.
C27_ContextCapture ==
    pc = "returned" =>
        \A m \in Range(results) :
            IF cli.context_bytes = None
            THEN m.context_before = None /\ m.context_after = None
            ELSE /\ m.context_before =
                       IF BeforeCount(m) = 0 THEN None
                       ELSE Some(Slice(mmap, LocalStart(m) - BeforeCount(m), LocalStart(m)))
                 /\ m.context_after =
                       IF AfterCount(m) = 0 THEN None
                       ELSE Some(Slice(mmap, SpanEnd(m), SpanEnd(m) + AfterCount(m)))

\* a match whose context before it is cut by the size and whose context after it is
\* absent at the end of the buffer
C27_Witness ==
    /\ pc = "returned"
    /\ cli.context_bytes # None
    /\ \E m \in Range(results) :
          /\ BeforeCount(m) > 0
          /\ BeforeCount(m) < LocalStart(m)
          /\ m.context_before = Some(Slice(mmap, LocalStart(m) - BeforeCount(m), LocalStart(m)))
          /\ m.context_after = None

\* a match whose context after it is cut by the size
C27_WitnessAfter ==
    /\ pc = "returned"
    /\ cli.context_bytes # None
    /\ \E m \in Range(results) :
          /\ AfterCount(m) > 0
          /\ AfterCount(m) < Len(mmap) - SpanEnd(m)
          /\ is_some(m.context_after)

\* a size of 0 leaves both sides absent in the middle of a buffer
C27_WitnessZero ==
    /\ pc = "returned"
    /\ cli.context_bytes = Some(0)
    /\ \E m \in Range(results) :
          /\ LocalStart(m) > 0
          /\ SpanEnd(m) < Len(mmap)
          /\ m.context_before = None
          /\ m.context_after = None

(***************************************************************************)
(* C28                                                                      *)
(***************************************************************************)
\* the places << chunk index, index in the chunk's result >> of the matches at an offset
Group(offset) ==
    {p \in UNION {{<< k, j >> : j \in DOMAIN chunk_results[k]} : k \in DOMAIN chunk_results} :
        chunk_results[p[1]][p[2]].offset = offset}

\* the place that comes first in the concatenation taken in chunk-index order
FirstOf(offset) ==
    CHOOSE p \in Group(offset) :
        \A q \in Group(offset) : p[1] < q[1] \/ (p[1] = q[1] /\ p[2] <= q[2])

ScannerRank(m) ==
    CASE ScannerOf(m) = "AsciiUtf8" -> 1
      [] ScannerOf(m) = "Utf16Le" -> 2
      [] ScannerOf(m) = "Utf16Be" -> 3
      [] ScannerOf(m) = "Gbk" -> 4

\* C28: after the merge, the match kept at an offset is the first one with that offset
\* in the concatenation of the chunk results in chunk-index order, one match is kept
\* for every reported offset, and within a chunk the matches come in the order of the
\* scanners ASCII/UTF-8, UTF-16LE, UTF-16BE, GBK.
C28_FirstSurvives ==
    pc = "done" =>
        /\ \A u \in DOMAIN unique_results :
              /\ Group(unique_results[u].offset) # {}
              /\ unique_results[u] =
                     chunk_results[FirstOf(unique_results[u].offset)[1]]
                                  [FirstOf(unique_results[u].offset)[2]]
        /\ \A m \in Reported :
              Cardinality({u \in DOMAIN unique_results :
                              unique_results[u].offset = m.offset}) = 1
        /\ \A k \in DOMAIN chunk_results :
              \A i, j \in DOMAIN chunk_results[k] :
                  i < j => ScannerRank(chunk_results[k][i]) <= ScannerRank(chunk_results[k][j])

\* the versions of two chunks differ at an offset and the earlier chunk's is kept
C28_Witness ==
    /\ pc = "done"
    /\ \E u \in DOMAIN unique_results :
          \E p, q \in Group(unique_results[u].offset) :
              /\ p[1] < q[1]
              /\ chunk_results[p[1]][p[2]] # chunk_results[q[1]][q[2]]
              /\ unique_results[u] = chunk_results[p[1]][p[2]]

\* two scanners of one chunk report at an offset and the earlier scanner's is kept
C28_WitnessScanners ==
    /\ pc = "done"
    /\ \E u \in DOMAIN unique_results :
          \E p, q \in Group(unique_results[u].offset) :
              /\ p[1] = q[1]
              /\ p[2] < q[2]
              /\ ScannerOf(chunk_results[p[1]][p[2]]) # ScannerOf(chunk_results[q[1]][q[2]])
              /\ unique_results[u] = chunk_results[p[1]][p[2]]

(***************************************************************************)
(* C29                                                                      *)
(***************************************************************************)
\* the matches of one scanner, in the order in which extract_strings returned them
OutputOf(scanner) == SelectSeq(results, LAMBDA m : ScannerOf(m) = scanner)

ScannerNames == {"AsciiUtf8", "Utf16Le", "Utf16Be", "Gbk"}

\* C29: in the output of one scanner over one buffer, every match starts at or after
\* the end of the match before it.
C29_RunsApart ==
    pc = "returned" =>
        \A scanner \in ScannerNames :
            \A k \in 1..(Len(OutputOf(scanner)) - 1) :
                OutputOf(scanner)[k + 1].offset >=
                    OutputOf(scanner)[k].offset + OutputOf(scanner)[k].byte_length

\* a scanner has reported two matches, the second directly at the end of the first
C29_Witness ==
    /\ pc = "returned"
    /\ \E scanner \in ScannerNames :
          \E k \in 1..(Len(OutputOf(scanner)) - 1) :
              OutputOf(scanner)[k + 1].offset =
                  OutputOf(scanner)[k].offset + OutputOf(scanner)[k].byte_length

\* the GBK scanner has reported two matches
C29_WitnessGbk ==
    /\ pc = "returned"
    /\ Len(OutputOf("Gbk")) >= 2

(***************************************************************************)
(* C30                                                                      *)
(***************************************************************************)
\* the encodings passed to StringExtractor::new
Requested == Range(cli.encodings)

\* what one pass of a scanner over the buffer returns
OnePass(scanner) ==
    CASE scanner = "AsciiUtf8" -> extract_ascii_utf8(unwrap(extractor).config, mmap, base_offset)
      [] scanner = "Utf16Le" -> extract_utf16le(unwrap(extractor).config, mmap, base_offset)
      [] scanner = "Utf16Be" -> extract_utf16be(unwrap(extractor).config, mmap, base_offset)
      [] scanner = "Gbk" -> extract_gbk(unwrap(extractor).config, mmap, base_offset)

Enabled(scanner) ==
    IF scanner = "AsciiUtf8" THEN Requested \cap {"Ascii", "Utf8"} # {}
    ELSE scanner \in Requested

\* C30: the matches of each scanner in the result are those of one pass of that
\* scanner when it is enabled and none otherwise, where UTF-16LE, UTF-16BE and GBK
\* are enabled by their own encoding and the ASCII/UTF-8 scanner by either of its
\* two; the result has nothing else, and nothing at all for an empty encoding set.
C30_ScannerDispatch ==
    pc = "returned" =>
        /\ \A scanner \in ScannerNames :
              OutputOf(scanner) = IF Enabled(scanner) THEN OnePass(scanner) ELSE << >>
        /\ \A m \in Range(results) :
              /\ m.encoding \in {"Utf16Le", "Utf16Be", "Gbk"} => m.encoding \in Requested
              /\ m.encoding \in {"Ascii", "Utf8"} => Requested \cap {"Ascii", "Utf8"} # {}
        /\ Len(results) =
              Len(OutputOf("AsciiUtf8")) + Len(OutputOf("Utf16Le"))
                  + Len(OutputOf("Utf16Be")) + Len(OutputOf("Gbk"))
        /\ Requested = {} => results = << >>

\* ASCII and UTF-8 requested together with a repetition, and the scan has matches
C30_Witness ==
    /\ pc = "returned"
    /\ cli.encodings = << "Utf8", "Ascii", "Utf8" >>
    /\ results # << >>
    /\ results = OnePass("AsciiUtf8")

\* an empty encoding set over a buffer in which two scanners would find a match
C30_WitnessEmpty ==
    /\ pc = "returned"
    /\ cli.encodings = << >>
    /\ results = << >>
    /\ OnePass("AsciiUtf8") # << >>
    /\ OnePass("Utf16Le") # << >>

\* one encoding requested and the matches of the other scanners left out
C30_WitnessSingle ==
    /\ pc = "returned"
    /\ cli.encodings = << "Utf16Le" >>
    /\ results # << >>
    /\ OnePass("AsciiUtf8") # << >>
    /\ \A m \in Range(results) : m.encoding = "Utf16Le"

\* ASCII alone requested and a match tagged UTF-8 reported
C30_WitnessOtherTag ==
    /\ pc = "returned"
    /\ cli.encodings = << "Ascii" >>
    /\ \E m \in Range(results) : m.encoding = "Utf8"

(***************************************************************************)
(* C31                                                                      *)
(***************************************************************************)
\* the indices of mmap that the inner loop of a scanner reads in the run from start
RunReads(scanner, start) ==
    CASE scanner = "Ascii" -> ascii_utf8_run_reads(mmap, start)
      [] scanner = "Utf16Le" -> utf16_run_reads(mmap, start, TRUE)
      [] scanner = "Utf16Be" -> utf16_run_reads(mmap, start, FALSE)
      [] scanner = "Gbk" -> gbk_run_reads(mmap, start, 0, 0, MAX_STRING_LENGTH)

\* the last byte of the buffer opens a sequence that the buffer cuts
CutTail ==
    /\ mmap # << >>
    /\ mmap[Len(mmap)] >= 192

\* C31: in every buffer, the empty one included, the run of a scanner from any start
\* reads only indices below the length of the buffer and ends at or before it, and
\* every match has at least one byte and lies within the buffer.
C31_BoundsSafe ==
    /\ \A scanner \in Scanners :
          \A start \in 0..(Len(mmap) - 1) :
              StartsRun(mmap, start, scanner) =>
                  /\ RunReads(scanner, start) \subseteq 0..(Len(mmap) - 1)
                  /\ start \in RunReads(scanner, start)
                  /\ RunEnd(scanner, start) <= Len(mmap)
    /\ \A m \in Range(results) :
          /\ m.byte_length >= 1
          /\ LocalStart(m) >= 0
          /\ LocalStart(m) + m.byte_length <= Len(mmap)

\* a match that ends where an incomplete UTF-8 sequence closes the buffer
C31_Witness ==
    /\ pc = "returned"
    /\ CutTail
    /\ \E m \in Range(results) :
          /\ ScannerOf(m) = "AsciiUtf8"
          /\ SpanEnd(m) = Len(mmap) - 1
          /\ Len(mmap) - 1 \in RunReads("Ascii", LocalStart(m))

\* a UTF-16 match before an odd trailing byte
C31_WitnessOddByte ==
    /\ pc = "returned"
    /\ \E m \in Range(results) :
          /\ m.encoding = "Utf16Le"
          /\ SpanEnd(m) = Len(mmap) - 1
          /\ RunReads("Utf16Le", LocalStart(m)) = LocalStart(m)..(Len(mmap) - 2)

\* a GBK match that ends with a lead byte as the last byte of the buffer
C31_WitnessLeadLast ==
    /\ pc = "returned"
    /\ CutTail
    /\ \E m \in Range(results) :
          /\ m.encoding = "Gbk"
          /\ SpanEnd(m) = Len(mmap)
          /\ m.byte_length > 1

\* the empty buffer is scanned
C31_WitnessEmpty ==
    /\ pc = "returned"
    /\ mmap = << >>
    /\ results = << >>

\* a buffer of one byte is scanned and its byte is a match
C31_WitnessOneByte ==
    /\ pc = "returned"
    /\ Len(mmap) = 1
    /\ Len(results) = 1
    /\ results[1].byte_length = 1

(***************************************************************************)
(* C32                                                                      *)
(***************************************************************************)
\* the chunks whose range [start, end) holds position p
Covering(p) == {k \in DOMAIN chunks : chunks[k].start <= p /\ p < chunks[k].end}

\* the positions of [0, L) at which the set of covering chunks can change: the number
\* of chunks over a position is constant between two neighbours of this set
Breakpoints ==
    {p \in {0} \cup {chunks[k].start : k \in DOMAIN chunks}
                \cup {chunks[k].end : k \in DOMAIN chunks} :
        p < mmap_len}

\* the end of the range of chunk k before it is widened
UnwidenedEnd(k) == IF k < Len(chunks) THEN chunks[k + 1].start ELSE mmap_len

\* C32: in every plan every position of [0, L) lies in one or two chunk ranges; the
\* ranges before widening follow one another from 0 to L and each chunk holds its own;
\* with more than one chunk the chunk size floor(L / N) is at least 16 MiB, above the
\* overlap of 4096, and a widened chunk ends at or before the start of the chunk after
\* its successor.
C32_CoveredOnceOrTwice ==
    (pc = "scan" /\ Len(chunks) >= 1) =>
        /\ \A p \in Breakpoints : Cardinality(Covering(p)) \in {1, 2}
        /\ chunks[1].start = 0
        /\ \A k \in DOMAIN chunks :
              /\ chunks[k].start <= UnwidenedEnd(k)
              /\ UnwidenedEnd(k) <= chunks[k].end
              /\ chunks[k].end <= mmap_len
        /\ chunks[Len(chunks)].end = mmap_len
        /\ Len(chunks) > 1 =>
              /\ mmap_len \div Len(chunks) >= 16 * 1024 * 1024
              /\ mmap_len \div Len(chunks) > 4096
              /\ \A k \in DOMAIN chunks : UnwidenedEnd(k) - chunks[k].start >= 16 * 1024 * 1024
        /\ \A k \in 1..(Len(chunks) - 2) : chunks[k].end <= chunks[k + 2].start
        /\ \A k \in 1..(Len(chunks) - 1) :
              \A p \in Breakpoints :
                  (chunks[k + 1].start <= p /\ p < chunks[k].end) => Covering(p) = {k, k + 1}

\* a plan of three chunks or more with positions under one chunk and under two
C32_Witness ==
    /\ pc = "scan"
    /\ Len(chunks) >= 3
    /\ \E p \in Breakpoints : Cardinality(Covering(p)) = 1
    /\ \E p \in Breakpoints : Covering(p) = {2, 3}
    /\ chunks[1].end = chunks[2].start + 4096

\* a plan of one chunk over the whole input
C32_WitnessOneChunk ==
    /\ pc = "scan"
    /\ Len(chunks) = 1
    /\ mmap_len > 0
    /\ \A p \in Breakpoints : Covering(p) = {1}

(***************************************************************************)
(* C33                                                                      *)
(***************************************************************************)
\* how many times the task of chunk k has run to its end
TimesScanned(k) == Cardinality({j \in DOMAIN finished : finished[j] = k})

\* C33: no chunk is scanned twice; while the merge runs and after it, every planned
\* chunk has been scanned exactly once, no task is unfinished, and what is merged is
\* the result of every chunk.
C33_MergeAfterJoin ==
    /\ \A k \in DOMAIN chunks :
          /\ TimesScanned(k) = (IF task[k] = "done" THEN 1 ELSE 0)
          /\ task[k] # "done" => chunk_results[k] = << >>
    /\ Range(finished) \subseteq DOMAIN chunks
    /\ pc \in {"merge", "done"} =>
          /\ Len(chunks) >= 1
          /\ DOMAIN task = DOMAIN chunks
          /\ \A k \in DOMAIN chunks : task[k] = "done" /\ TimesScanned(k) = 1
          /\ Len(finished) = Len(chunks)
          /\ \A k \in DOMAIN chunks : chunk_results[k] = TaskResult(k)
          /\ Range(results) = Reported
    /\ pc \in {"start", "plan", "scan"} => (results = << >> /\ unique_results = << >>)
    /\ pc = "merge" => unique_results = << >>

\* the merge begins after three tasks that did not finish in the order of their chunks
C33_Witness ==
    /\ pc = "merge"
    /\ Len(chunks) >= 3
    /\ OutOfOrder
    /\ results # << >>

(***************************************************************************)
(* C34                                                                      *)
(***************************************************************************)
\* the chunk tasks that have run to their end
Done == {k \in DOMAIN task : task[k] = "done"}

\* the counter has every increment of the tasks that are done and no other
CounterExact ==
    /\ processed_count = Cardinality(Done)
    /\ processed_count = Len(finished)
    /\ processed_count <= Len(chunks)
    /\ pc \in {"merge", "done"} => processed_count = Len(chunks)
    /\ \A k \in Done : chunk_results[k] = TaskResult(k)
    /\ pc = "done" => unique_results = InOrderMerge

\* a step leaves the counter or adds 1 to it, and adds 1 exactly when a task ends
CounterStep ==
    /\ processed_count' >= processed_count
    /\ processed_count' - processed_count = Cardinality({k \in DOMAIN task' : task'[k] = "done"})
                                               - Cardinality(Done)
    /\ processed_count' - processed_count \in {0, 1}

\* C34: in every order of the chunk tasks the counter never decreases, grows by one
\* exactly when a task ends, so that it always equals the number of tasks that have
\* ended and the number of chunks once all have, and the matches of a chunk and of the
\* output are what the scan of the chunks gives whatever the counter was.
C34_ProgressCounter == [](CounterExact) /\ [][CounterStep]_vars

\* all of three tasks have ended, not in the order of their chunks
C34_Witness ==
    /\ pc = "done"
    /\ Len(chunks) >= 3
    /\ processed_count = Len(chunks)
    /\ OutOfOrder
    /\ unique_results # << >>

(***************************************************************************)
(* C35                                                                      *)
(***************************************************************************)
AsciiRunAt(start) == ascii_utf8_run(mmap, start, FALSE)

\* the bytes [start, i) of the run started at start
AsciiSpanAt(start) == Slice(mmap, start, AsciiRunAt(start).i)

\* the run started at start is converted without validation: it is long enough and
\* saw no byte with the high bit set
Unchecked(start) ==
    /\ start \in AsciiRunStarts(0)
    /\ AsciiRunAt(start).i - start >= cli.min_len
    /\ ~AsciiRunAt(start).has_non_ascii

\* C35: a span that the ASCII/UTF-8 scanner converts without validation holds only
\* printable ASCII bytes (0x20-0x7E) and tabs, so it is valid UTF-8, and the match made
\* of it is tagged ASCII with the bytes of the span as its content.
C35_UncheckedIsAscii ==
    \A start \in 0..(Len(mmap) - 1) :
        Unchecked(start) =>
            /\ \A b \in Range(AsciiSpanAt(start)) : (b >= 32 /\ b <= 126) \/ b = 9
            /\ from_utf8(AsciiSpanAt(start)).ok
            /\ from_utf8(AsciiSpanAt(start)).chars = AsciiSpanAt(start)
            /\ (pc = "returned" /\ AsciiScannerOn) =>
                  \A m \in Range(results) :
                      (ScannerOf(m) = "AsciiUtf8" /\ LocalStart(m) = start) =>
                          /\ m.encoding = "Ascii"
                          /\ m.content = AsciiSpanAt(start)

\* a match converted without validation whose span holds a tab
C35_Witness ==
    /\ pc = "returned"
    /\ \E start \in 0..(Len(mmap) - 1) :
          /\ Unchecked(start)
          /\ 9 \in Range(AsciiSpanAt(start))
          /\ \E m \in Range(results) :
                /\ m.encoding = "Ascii"
                /\ LocalStart(m) = start
                /\ m.content = AsciiSpanAt(start)

\* a span converted without validation that a DEL byte ends
C35_WitnessDel ==
    /\ pc = "returned"
    /\ \E start \in 0..(Len(mmap) - 1) :
          /\ Unchecked(start)
          /\ AsciiRunAt(start).i < Len(mmap)
          /\ mmap[AsciiRunAt(start).i + 1] = 127
          /\ \E m \in Range(results) : m.encoding = "Ascii" /\ LocalStart(m) = start

\* a run that saw a high-bit byte beside a span converted without validation
C35_WitnessBoth ==
    /\ pc = "returned"
    /\ \E start \in 0..(Len(mmap) - 1) : Unchecked(start)
    /\ \E start \in AsciiRunStarts(0) : AsciiRunAt(start).has_non_ascii

====
